---- MODULE Spec2Model ----
(***************************************************************************)
(* Verification model of the splicing-quantification pipeline:             *)
(*   - the three splice-table assemblers (leafcutter_to_splice_table.py,   *)
(*     rmats_to_splice_table.py, spliser_to_splice_table.py),              *)
(*   - the LeafCutter PSI normalizer (process_leafcutter_psi.py),          *)
(*   - the rMATS splice-site extraction (process_rmats_psi.py),            *)
(*   - the annotation model builder (make_splice_table.py),                *)
(*   - the sample-processing phase of the SpliSER and LeafCutter pipeline  *)
(*     runners (run_spliser.py, run_leafcutter.py).                        *)
(*                                                                         *)
(* Conventions.  A Python str is a sequence of one-character strings, so   *)
(* that str(), ','.join, split and numeric parsing are computed, not       *)
(* assumed.  A float is a record [nan, h]: h counts hundredths (0.2 is     *)
(* h = 20); nan = TRUE is NaN.  Binary rounding of floats is not modelled. *)
(***************************************************************************)
EXTENDS Integers, Sequences, FiniteSets, TLC

VARIABLES
    assembler,          \* which assembler script runs
    splice_table_file,  \* the input splice table: a sequence of 8-column text rows
    df,                 \* the normalized observations, in file order
    n_threads,          \* --n_threads of the current run
    pc,                 \* "idle" | "running" | "done" | "crashed"
    splice_table,       \* the in-memory table of the current run
    futures,            \* per table row: "pending" | "running" | "done"
    results,            \* per table row: what its future holds once done
    collected,          \* number of rows whose result the main thread has written
    output_file,        \* the rows of the output file
    rerun,              \* FALSE during the first run, TRUE during the second
    first_df,           \* observations of the first run
    first_n_threads,    \* --n_threads of the first run
    first_output,       \* output file as the first run left it
    \* process_leafcutter_psi.py
    lc_file,            \* the LeafCutter PSI table: rows of intron key and replicate values
    lc_pc,              \* "idle" | "loop" | "done" | "crashed"
    lc_df,              \* the decoded rows with their average_psi
    lc_i,               \* number of rows the accumulation loop has processed
    position_accumulator, \* the dict, as its entries in insertion order
    lc_output,          \* the rows of the normalized output file
    \* process_rmats_psi.py, one results directory
    rm_files,           \* per event type: whether its file exists, and its event rows
    rm_pc,              \* "idle" | "loop" | "extracted" | "averaged" | "skipped" | "crashed"
    rm_k,               \* number of event types the loop has handled
    all_splice_sites,   \* the extracted rows, file after file
    average_psi_df,     \* the per-site averages of the directory
    \* process_rmats_psi.py, main over the result directories
    rmats_dirs,         \* the directories: for each its name and its event files
    rm_n_threads,       \* max_workers of the pool
    rm_main_pc,         \* "idle" | "pool" | "done"
    rm_futures,         \* per directory: "queued" | "running" | "finished" | "collected"
    rm_results,         \* per directory: the outcome of its finished task
    all_average_psi,    \* the collected (dir_name, frame) entries, in insertion order
    rm_outfile,         \* whether the output file was written, and its rows
    \* make_splice_table.py
    gtf_data,           \* the lines of the annotation file, attributes as (name, value) entries
    paralog_data,       \* the rows of the paralog reference
    gtf_pc,             \* "idle" | "parsed" | "selected" | "filtered" | "done"
    gtf_data_parsed,    \* the lines with their extracted attributes
    primary_transcripts,                        \* the (gene_id, primary_transcript_id) pairs
    principal_transcripts_with_exons_filtered,  \* the kept transcript rows, exon lists trimmed
    final_df_ordered,   \* the rows written to the output file
    \* run_spliser.py
    bam_files_to_process, \* the BAM paths of the list file
    sp_n_threads,       \* max_workers of the pool
    sp_pc,              \* "idle" | "processing" | "combine" | "finished" | "crashed"
    sp_tasks,           \* per BAM: "pending" | "junctions" | "process" | "append" | "done" | "failed"
    sp_output_tsv,      \* per BAM: what run_spliser_process returned
    sp_disk,            \* the paths that exist in the output directory
    samples_file,       \* the lines of the samples file
    sp_rerun,           \* FALSE during the first run, TRUE during the second
    \* run_leafcutter.py
    bam_files,          \* the BAM paths of the list file
    lf_n_threads,       \* max_workers of the pool
    lf_pc,              \* "idle" | "extracting" | "clustering" | "interrupted"
    lf_tasks,           \* per BAM: "pending" | "check" | "index" | "regtools" | "append" | "returned" | "failed"
    lf_disk,            \* the junction files that exist
    junction_list_file, \* the lines of the junction list file
    lf_rerun            \* FALSE during the first run, TRUE during the second

asm_vars == <<assembler, splice_table_file, df, n_threads, pc, splice_table, futures,
              results, collected, output_file, rerun, first_df, first_n_threads,
              first_output>>

leaf_vars == <<lc_file, lc_pc, lc_df, lc_i, position_accumulator, lc_output>>

rmats_vars == <<rm_files, rm_pc, rm_k, all_splice_sites, average_psi_df>>

rmain_vars ==
    <<rmats_dirs, rm_n_threads, rm_main_pc, rm_futures, rm_results, all_average_psi, rm_outfile>>

gtf_vars ==
    <<gtf_data, paralog_data, gtf_pc, gtf_data_parsed, primary_transcripts,
      principal_transcripts_with_exons_filtered, final_df_ordered>>

spl_vars ==
    <<bam_files_to_process, sp_n_threads, sp_pc, sp_tasks, sp_output_tsv, sp_disk,
      samples_file, sp_rerun>>

junc_vars ==
    <<bam_files, lf_n_threads, lf_pc, lf_tasks, lf_disk, junction_list_file, lf_rerun>>

pipe_vars == <<spl_vars, junc_vars>>

vars == <<asm_vars, leaf_vars, rmats_vars, rmain_vars, gtf_vars, pipe_vars>>

not_asm_vars == <<leaf_vars, rmats_vars, rmain_vars, gtf_vars, pipe_vars>>

not_leaf_vars == <<asm_vars, rmats_vars, rmain_vars, gtf_vars, pipe_vars>>

not_rmats_vars == <<asm_vars, leaf_vars, rmain_vars, gtf_vars, pipe_vars>>

not_rmain_vars == <<asm_vars, leaf_vars, rmats_vars, gtf_vars, pipe_vars>>

not_gtf_vars == <<asm_vars, leaf_vars, rmats_vars, rmain_vars, pipe_vars>>

not_spl_vars == <<asm_vars, leaf_vars, rmats_vars, rmain_vars, gtf_vars, junc_vars>>

not_junc_vars == <<asm_vars, leaf_vars, rmats_vars, rmain_vars, gtf_vars, spl_vars>>

\* run_spliser.py has not been started
SpliserIdle ==
    /\ bam_files_to_process = <<>> /\ sp_n_threads = 0 /\ sp_pc = "off" /\ sp_tasks = <<>>
    /\ sp_output_tsv = <<>> /\ sp_disk = {} /\ samples_file = <<>> /\ sp_rerun = FALSE

\* run_leafcutter.py has not been started
JuncIdle ==
    /\ bam_files = <<>> /\ lf_n_threads = 0 /\ lf_pc = "off" /\ lf_tasks = <<>>
    /\ lf_disk = {} /\ junction_list_file = <<>> /\ lf_rerun = FALSE

PipeIdle == SpliserIdle /\ JuncIdle

\* make_splice_table.py has not been started
GtfIdle ==
    /\ gtf_data = <<>> /\ paralog_data = <<>> /\ gtf_pc = "idle" /\ gtf_data_parsed = <<>>
    /\ primary_transcripts = {} /\ principal_transcripts_with_exons_filtered = <<>>
    /\ final_df_ordered = <<>>

\* process_rmats_psi.py has not been started
RmatsDirIdle ==
    /\ rm_files = <<>> /\ rm_pc = "idle" /\ rm_k = 0 /\ all_splice_sites = <<>>
    /\ average_psi_df = {}

\* main of process_rmats_psi.py has not been started
RmainIdle ==
    /\ rmats_dirs = <<>> /\ rm_n_threads = 0 /\ rm_main_pc = "idle" /\ rm_futures = <<>>
    /\ rm_results = <<>> /\ all_average_psi = <<>>
    /\ rm_outfile = [written |-> FALSE, rows |-> {}]

RmatsIdle == RmatsDirIdle /\ RmainIdle

\* process_leafcutter_psi.py has not been started
LeafIdle ==
    /\ lc_file = <<>> /\ lc_pc = "idle" /\ lc_df = <<>> /\ lc_i = 0
    /\ position_accumulator = <<>> /\ lc_output = <<>>

\* no assembler has been started
AsmIdle ==
    /\ assembler = "none" /\ splice_table_file = <<>> /\ df = <<>> /\ n_threads = 0
    /\ pc = "off" /\ splice_table = <<>> /\ futures = <<>> /\ results = <<>>
    /\ collected = 0 /\ output_file = <<>> /\ rerun = FALSE /\ first_df = <<>>
    /\ first_n_threads = 0 /\ first_output = <<>>


-----------------------------------------------------------------------------
(* Text *)

Digits == <<"0", "1", "2", "3", "4", "5", "6", "7", "8", "9">>

DigitVal(c) == (CHOOSE d \in 1..Len(Digits) : Digits[d] = c) - 1

IsDigits(s) == Len(s) > 0 /\ \A i \in 1..Len(s) : \E d \in 1..Len(Digits) : Digits[d] = s[i]

\* str(n) of a non-negative Python int
RECURSIVE str_int(_)
str_int(n) ==
    IF n < 10 THEN <<Digits[n + 1]>>
    ELSE str_int(n \div 10) \o <<Digits[(n % 10) + 1]>>

\* int(s) of a decimal digit string
RECURSIVE int_of(_)
int_of(s) ==
    IF Len(s) = 1 THEN DigitVal(s[1])
    ELSE 10 * int_of(SubSeq(s, 1, Len(s) - 1)) + DigitVal(s[Len(s)])

\* sep.join(xs)
RECURSIVE join(_, _)
join(sep, xs) ==
    IF xs = <<>> THEN <<>>
    ELSE IF Len(xs) = 1 THEN xs[1]
    ELSE xs[1] \o sep \o join(sep, Tail(xs))

\* s.split(c) for a one-character separator c
RECURSIVE split(_, _)
split(s, c) ==
    IF \A i \in 1..Len(s) : s[i] # c THEN <<s>>
    ELSE LET k == CHOOSE i \in 1..Len(s) : s[i] = c /\ \A j \in 1..(i - 1) : s[j] # c
         IN  <<SubSeq(s, 1, k - 1)>> \o split(SubSeq(s, k + 1, Len(s)), c)

Map(f(_), xs) == [i \in 1..Len(xs) |-> f(xs[i])]

-----------------------------------------------------------------------------
(* Floats *)

NaN == [nan |-> TRUE, h |-> 0]

Float(h) == [nan |-> FALSE, h |-> h]

\* str(x) of a Python float: shortest decimal form, "nan" for NaN
str_float(x) ==
    IF x.nan THEN <<"n", "a", "n">>
    ELSE LET ip == x.h \div 100
             fr == x.h % 100
         IN  str_int(ip) \o <<".">> \o
             (IF fr % 10 = 0 THEN <<Digits[(fr \div 10) + 1]>>
              ELSE <<Digits[(fr \div 10) + 1], Digits[(fr % 10) + 1]>>)

-----------------------------------------------------------------------------
(* pandas columns of the splice table: a cell carries its column's dtype *)

Int64(n) == [dtype |-> "int64", nan |-> FALSE, n |-> n, s |-> <<>>]

Float64(n) == [dtype |-> "float64", nan |-> FALSE, n |-> n, s |-> <<>>]

NaNCell == [dtype |-> "float64", nan |-> TRUE, n |-> 0, s |-> <<>>]

Object(s) == [dtype |-> "object", nan |-> FALSE, n |-> 0, s |-> s]

\* pd.read_csv type inference for one column of text cells: an all-integer
\* column becomes int64, any other column stays text (object)
read_csv_column(texts) ==
    IF \A i \in 1..Len(texts) : IsDigits(texts[i])
    THEN [i \in 1..Len(texts) |-> Int64(int_of(texts[i]))]
    ELSE [i \in 1..Len(texts) |-> Object(texts[i])]

\* pd.to_numeric(column, errors='coerce'): unparseable cells become NaN, and a
\* column holding a NaN is float64 as a whole
to_numeric(column) ==
    LET conv(c) == IF c.dtype = "int64" THEN c
                   ELSE IF IsDigits(c.s) THEN Int64(int_of(c.s)) ELSE NaNCell
        col == [i \in 1..Len(column) |-> conv(column[i])]
    IN  IF \E i \in 1..Len(col) : col[i].nan
        THEN [i \in 1..Len(col) |-> IF col[i].nan THEN NaNCell ELSE Float64(col[i].n)]
        ELSE col

\* to_csv rendering of a cell of column 4 or 5
cell_to_csv(c) ==
    IF c.dtype = "int64" THEN str_int(c.n)
    ELSE IF c.dtype = "object" THEN c.s
    ELSE IF c.nan THEN <<>>
    ELSE str_int(c.n) \o <<".", "0">>

-----------------------------------------------------------------------------
(* Interval join *)

\* (df['position'] >= tx_start) & (df['position'] <= tx_end); comparisons with NaN are False
InSpanHalfOpen(position, tx_start, tx_end) ==
    /\ ~tx_start.nan /\ ~tx_end.nan
    /\ position >= tx_start.n /\ position < tx_end.n

InSpan(position, tx_start, tx_end) ==
    /\ ~tx_start.nan /\ ~tx_end.nan
    /\ position >= tx_start.n /\ position <= tx_end.n

\* a scan that stops at the first observation beyond tx_end (valid on sorted input only)
RECURSIVE matching_rows_sorted_scan(_, _, _, _)
matching_rows_sorted_scan(obs, chrom, tx_start, tx_end) ==
    IF obs = <<>> THEN <<>>
    ELSE IF ~tx_end.nan /\ Head(obs).position > tx_end.n THEN <<>>
    ELSE (IF Head(obs).chromosome = chrom /\ InSpan(Head(obs).position, tx_start, tx_end)
          THEN <<Head(obs)>> ELSE <<>>)
         \o matching_rows_sorted_scan(Tail(obs), chrom, tx_start, tx_end)

\* df[(df['chromosome'] == chrom) & (df['position'] >= tx_start) & (df['position'] <= tx_end)]
matching_rows(obs, chrom, tx_start, tx_end) ==
    SelectSeq(obs, LAMBDA o : o.chromosome = chrom /\ InSpan(o.position, tx_start, tx_end))

\* an ordered comparison of the int64 position column with a str raises TypeError
raises_TypeError(obs, tx_start, tx_end) ==
    obs # <<>> /\ (tx_start.dtype = "object" \/ tx_end.dtype = "object")

\* a serialization that leaves out the trailing comma
serialize_positions_no_trailing_comma(rows) ==
    join(<<",">>, Map(LAMBDA o : str_int(o.position), rows))

\* ','.join(map(str, xs)) + ','
serialize_positions(rows) == join(<<",">>, Map(LAMBDA o : str_int(o.position), rows)) \o <<",">>

serialize_psi(rows) == join(<<",">>, Map(LAMBDA o : str_float(o.psi), rows)) \o <<",">>

\* row[k] of a table row: column k (0-based) of the 8 input columns
col(row, k) == row.rec[k + 1]

NoResult == [idx |-> 0, exc |-> FALSE, positions |-> <<>>, psi_values |-> <<>>]

joined(obs, row) ==
    IF raises_TypeError(obs, row.tx_start, row.tx_end)
    THEN [NoResult EXCEPT !.exc = TRUE]
    ELSE LET m == matching_rows(obs, col(row, 2), row.tx_start, row.tx_end)
         IN  [NoResult EXCEPT !.positions = serialize_positions(m), !.psi_values = serialize_psi(m)]

\* a task that reports the index of the first row whatever row it was given
process_row_first_idx(idx, row, obs) == [joined(obs, row) EXCEPT !.idx = 1]

\* leafcutter_to_splice_table.process_row: returns idx with the two strings
process_row(idx, row, obs) == [joined(obs, row) EXCEPT !.idx = idx]

\* spliser_to_splice_table.process_row: returns the two strings only
spliser_process_row(row, mean_sse_df_clean) == joined(mean_sse_df_clean, row)

\* the loop body of rmats_to_splice_table.process_rmats_splice_table
rmats_loop_body(row, obs) == joined(obs, row)

-----------------------------------------------------------------------------
(* Reading the splice table, filtering and writing it *)

NewRow(rec, tx_start, tx_end) ==
    [rec |-> rec, tx_start |-> tx_start, tx_end |-> tx_end, positions |-> <<>>, PSI |-> <<>>]

\* pd.read_csv(splice_table_file, sep="\t", header=None), the two new columns,
\* then pd.to_numeric(errors='coerce') on columns 4 and 5
leafcutter_read(file) ==
    LET c4 == to_numeric(read_csv_column([i \in 1..Len(file) |-> file[i][5]]))
        c5 == to_numeric(read_csv_column([i \in 1..Len(file) |-> file[i][6]]))
    IN  [i \in 1..Len(file) |-> NewRow(file[i], c4[i], c5[i])]

rmats_read(file) ==
    LET c4 == to_numeric(read_csv_column([i \in 1..Len(file) |-> file[i][5]]))
        c5 == to_numeric(read_csv_column([i \in 1..Len(file) |-> file[i][6]]))
    IN  [i \in 1..Len(file) |-> NewRow(file[i], c4[i], c5[i])]

\* pd.read_csv(args.splice_table, sep='\t'): the first line of the file is taken
\* as the header; columns keep the dtype read_csv inferred
spliser_read(file) ==
    LET rows == Tail(file)
        c4 == read_csv_column([i \in 1..Len(rows) |-> rows[i][5]])
        c5 == read_csv_column([i \in 1..Len(rows) |-> rows[i][6]])
    IN  [i \in 1..Len(rows) |-> NewRow(rows[i], c4[i], c5[i])]

read_splice_table(asm, file) ==
    IF asm = "leafcutter" THEN leafcutter_read(file)
    ELSE IF asm = "rmats" THEN rmats_read(file)
    ELSE spliser_read(file)

\* a filter that tests for the empty string instead of the bare comma
keep_row_empty_string(row) == row.positions # <<>> /\ row.PSI # <<>>

\* ~positions.isin([',']) & ~PSI.isin([','])
keep_row(row) == row.positions # <<",">> /\ row.PSI # <<",">>

\* (splice_sites != ',') | (SSE_values != ',')
spliser_keep_row(row) == row.positions # <<",">> \/ row.PSI # <<",">>

filter_table(asm, table) ==
    IF asm = "spliser" THEN SelectSeq(table, spliser_keep_row) ELSE SelectSeq(table, keep_row)

\* one line of to_csv(sep="\t", index=False, header=False): the ten columns in table order
csv_row(row) ==
    <<col(row, 0), col(row, 1), col(row, 2), col(row, 3),
      cell_to_csv(row.tx_start), cell_to_csv(row.tx_end),
      col(row, 6), col(row, 7), row.positions, row.PSI>>

\* a writer that opens the output file in append mode
to_csv_append(old, table) == old \o Map(csv_row, table)

\* DataFrame.to_csv(output_file, ...): the file is written anew
to_csv(old, table) == Map(csv_row, table)

\* the filter and the save that end every assembler
emit(asm, old, table) == to_csv(old, filter_table(asm, table))

-----------------------------------------------------------------------------
(* Inputs of the assembler runs *)

MaxRows == 2
MaxObs == 3
MaxThreads == 2

T1 == <<"T1", "0", "chr1", "+", <<"1", "0", "0">>, <<"5", "0", "0">>, "300,", "200,">>
T2 == <<"T2", "1", "chr1", "-", <<"4", "8", "0">>, <<"9", "0", "0">>, "600,", "700,">>
T3 == <<"T3", "0", "chr2", "+", <<"x">>, <<"5", "0", "0">>, "300,", "200,">>

RowU == {T1, T2, T3}

Obs(c, p, h) == [chromosome |-> c, position |-> p, psi |-> Float(h)]

ObsU == <<Obs("chr1", 150, 20), Obs("chr1", 480, 60), Obs("chr1", 900, 90), Obs("chr2", 150, 35)>>

Injective(f) == \A i, j \in DOMAIN f : f[i] = f[j] => i = j

\* splice tables: 1..MaxRows distinct transcripts in any order
Tables == UNION {{t \in [1..n -> RowU] : Injective(t)} : n \in 1..MaxRows}

\* the k-th smallest element of a set of integers
RECURSIVE Nth(_, _)
Nth(S, k) ==
    LET m == CHOOSE x \in S : \A y \in S : x <= y
    IN  IF k = 1 THEN m ELSE Nth(S \ {m}, k - 1)

\* observation lists of the first run: up to MaxObs observations in file order
ObsLists ==
    {[k \in 1..Cardinality(S) |-> ObsU[Nth(S, k)]] :
        S \in {S \in SUBSET (1..Len(ObsU)) : Cardinality(S) <= MaxObs}}

Perms(s) == {[i \in 1..Len(s) |-> s[p[i]]] : p \in {q \in [1..Len(s) -> 1..Len(s)] : Injective(q)}}

-----------------------------------------------------------------------------
(* The assembler run *)

Init ==
    /\ assembler \in {"leafcutter", "rmats", "spliser"}
    /\ splice_table_file \in Tables
    /\ df \in ObsLists
    /\ n_threads = 1
    /\ pc = "idle"
    /\ splice_table = <<>>
    /\ futures = <<>>
    /\ results = <<>>
    /\ collected = 0
    /\ output_file = <<>>
    /\ rerun = FALSE
    /\ first_df = <<>>
    /\ first_n_threads = 0
    /\ first_output = <<>>
    /\ LeafIdle /\ RmatsIdle /\ GtfIdle /\ PipeIdle

\* the script starts: parse arguments, load both files, submit one task per row
StartRun ==
    /\ pc = "idle"
    /\ \E n \in 1..MaxThreads :
          /\ assembler = "rmats" => n = 1
          /\ n_threads' = n
    /\ LET t == read_splice_table(assembler, splice_table_file)
       IN  /\ splice_table' = t
           /\ futures' = [i \in 1..Len(t) |-> "pending"]
           /\ results' = [i \in 1..Len(t) |-> NoResult]
           /\ IF Len(t) = 0
              THEN pc' = "done" /\ output_file' = emit(assembler, output_file, t)
              ELSE pc' = "running" /\ UNCHANGED output_file
    /\ collected' = 0
    /\ UNCHANGED <<assembler, splice_table_file, df, rerun, first_df, first_n_threads, first_output>>
    /\ UNCHANGED not_asm_vars

\* a free pool thread takes the oldest queued task
TaskStart(i) ==
    /\ pc = "running" /\ assembler # "rmats"
    /\ futures[i] = "pending"
    /\ \A j \in 1..(i - 1) : futures[j] # "pending"
    /\ Cardinality({j \in DOMAIN futures : futures[j] = "running"}) < n_threads
    /\ futures' = [futures EXCEPT ![i] = "running"]
    /\ UNCHANGED <<assembler, splice_table_file, df, n_threads, pc, splice_table, results,
                   collected, output_file, rerun, first_df, first_n_threads, first_output>>
    /\ UNCHANGED not_asm_vars

\* the task returns (or raises): its future holds the outcome
TaskFinish(i) ==
    /\ pc = "running" /\ assembler # "rmats"
    /\ futures[i] = "running"
    /\ futures' = [futures EXCEPT ![i] = "done"]
    /\ results' = [results EXCEPT ![i] =
                      IF assembler = "leafcutter" THEN process_row(i, splice_table[i], df)
                      ELSE spliser_process_row(splice_table[i], df)]
    /\ UNCHANGED <<assembler, splice_table_file, df, n_threads, pc, splice_table,
                   collected, output_file, rerun, first_df, first_n_threads, first_output>>
    /\ UNCHANGED not_asm_vars

\* the main thread takes the next future in submission order; after the last
\* one it filters the table and saves it
Collect ==
    /\ pc = "running" /\ assembler # "rmats"
    /\ collected < Len(splice_table)
    /\ futures[collected + 1] = "done"
    /\ LET k == collected + 1
           r == results[k]
           idx == IF assembler = "leafcutter" THEN r.idx ELSE k
           t == [splice_table EXCEPT ![idx].positions = r.positions, ![idx].PSI = r.psi_values]
       IN  IF r.exc
           THEN pc' = "crashed" /\ UNCHANGED <<splice_table, collected, output_file>>
           ELSE /\ splice_table' = t
                /\ collected' = k
                /\ IF k = Len(splice_table)
                   THEN pc' = "done" /\ output_file' = emit(assembler, output_file, t)
                   ELSE UNCHANGED <<pc, output_file>>
    /\ UNCHANGED <<assembler, splice_table_file, df, n_threads, futures, results,
                   rerun, first_df, first_n_threads, first_output>>
    /\ UNCHANGED not_asm_vars

\* one iteration of the rMATS assembler's loop; after the last one the filter and the save
RmatsIter ==
    /\ pc = "running" /\ assembler = "rmats"
    /\ collected < Len(splice_table)
    /\ LET k == collected + 1
           r == rmats_loop_body(splice_table[k], df)
           t == [splice_table EXCEPT ![k].positions = r.positions, ![k].PSI = r.psi_values]
       IN  IF r.exc
           THEN pc' = "crashed" /\ UNCHANGED <<splice_table, collected, output_file>>
           ELSE /\ splice_table' = t
                /\ collected' = k
                /\ IF k = Len(splice_table)
                   THEN pc' = "done" /\ output_file' = emit(assembler, output_file, t)
                   ELSE UNCHANGED <<pc, output_file>>
    /\ UNCHANGED <<assembler, splice_table_file, df, n_threads, futures, results,
                   rerun, first_df, first_n_threads, first_output>>
    /\ UNCHANGED not_asm_vars

\* the user runs the same assembler again on the same splice table and the same
\* observations, listed in any order
Rerun ==
    /\ pc = "done" /\ ~rerun
    /\ rerun' = TRUE
    /\ first_df' = df
    /\ first_n_threads' = n_threads
    /\ first_output' = output_file
    /\ df' \in Perms(df)
    /\ pc' = "idle"
    /\ splice_table' = <<>>
    /\ futures' = <<>>
    /\ results' = <<>>
    /\ collected' = 0
    /\ UNCHANGED <<assembler, splice_table_file, n_threads, output_file>>
    /\ UNCHANGED not_asm_vars

Next ==
    \/ StartRun
    \/ \E i \in DOMAIN futures : TaskStart(i)
    \/ \E i \in DOMAIN futures : TaskFinish(i)
    \/ Collect
    \/ RmatsIter
    \/ Rerun

Spec == Init /\ [][Next]_vars

-----------------------------------------------------------------------------
(* Properties of the assembler runs *)

\* a splice-table text row whose tx_start and tx_end are integers
HasIntCoords(rec) == IsDigits(rec[5]) /\ IsDigits(rec[6])

\* the indices of the observations on the row's chromosome within [tx_start, tx_end]
MatchIdx(obs, rec) ==
    {i \in 1..Len(obs) : /\ obs[i].chromosome = rec[3]
                         /\ int_of(rec[5]) <= obs[i].position
                         /\ obs[i].position <= int_of(rec[6])}

\* those observations, in the order of the observation list
Expected(obs, rec) ==
    LET I == MatchIdx(obs, rec) IN [k \in 1..Cardinality(I) |-> obs[Nth(I, k)]]

\* the elements of a serialized list: what stands before each comma (the bare
\* comma is the empty list)
Items(s) == LET t == split(s, ",") IN IF s = <<",">> THEN <<>> ELSE SubSeq(t, 1, Len(t) - 1)

\* the (transcript, position, psi) triples an output file lists
MatchedSet(out) ==
    UNION {{<<out[k][1], Items(out[k][9])[j], Items(out[k][10])[j]>> :
               j \in 1..Len(Items(out[k][9]))} : k \in 1..Len(out)}

Survivors(out) == {out[k][1] : k \in 1..Len(out)}

\* C1: whenever a join has returned for a transcript row with integer
\* coordinates, the positions it returned are exactly those of the observations
\* on the row's chromosome with tx_start <= position <= tx_end (both bounds
\* inclusive), in the order of the observation list, with one PSI value each.
C1_IntervalJoin ==
    \A i \in DOMAIN splice_table :
        LET row == splice_table[i]
            e == Expected(df, row.rec)
            P == Items(row.positions)
        IN  (row.positions # <<>> /\ HasIntCoords(row.rec)) =>
                /\ Len(P) = Len(e)
                /\ Len(Items(row.PSI)) = Len(e)
                /\ \A k \in 1..Len(e) : IsDigits(P[k]) /\ int_of(P[k]) = e[k].position

\* C1 witness: a finished run holds a row matched by an observation on each
\* bound of its span, while another observation of the list is left out.
C1_Witness ==
    /\ pc = "done"
    /\ \E i \in DOMAIN splice_table :
          LET rec == splice_table[i].rec
              e == Expected(df, rec)
          IN  /\ HasIntCoords(rec)
              /\ splice_table[i].positions # <<>>
              /\ Len(e) < Len(df)
              /\ \E k \in 1..Len(e) : e[k].position = int_of(rec[5])
              /\ \E k \in 1..Len(e) : e[k].position = int_of(rec[6])

\* C2: no row of the output file has the bare comma as its positions field,
\* and a transcript with zero matching observations is in no output row.
C2_NoBareComma ==
    /\ \A k \in 1..Len(output_file) : output_file[k][9] # <<",">>
    /\ \A i \in 1..Len(splice_table_file) :
          LET rec == splice_table_file[i]
          IN  (HasIntCoords(rec) /\ MatchIdx(df, rec) = {}) => rec[1] \notin Survivors(output_file)

\* C2 witness: a finished run whose table holds a row serialized to the bare
\* comma, and whose output keeps another row.
C2_Witness ==
    /\ pc = "done"
    /\ Len(output_file) >= 1
    /\ \E i \in DOMAIN splice_table :
          /\ splice_table[i].positions = <<",">>
          /\ HasIntCoords(splice_table[i].rec)

\* C3: in every output row, positions and psi_values each end with a comma,
\* list the same number of elements, and their i-th elements are the position
\* and the PSI value of the i-th matched observation; the span chr1:[100,500]
\* with observations (150,0.2), (480,0.6), (900,0.9) yields "150,480," and "0.2,0.6,".
C3_Serialization ==
    \A k \in 1..Len(output_file) : \A i \in 1..Len(splice_table_file) :
        LET out == output_file[k]
            rec == splice_table_file[i]
            e == Expected(IF pc = "done" THEN df ELSE first_df, rec)
            P == split(out[9], ",")
            Q == split(out[10], ",")
        IN  (pc \in {"done", "idle"} /\ out[1] = rec[1]) =>
                /\ Len(P) = Len(e) + 1 /\ P[Len(P)] = <<>>
                /\ Len(Q) = Len(e) + 1 /\ Q[Len(Q)] = <<>>
                /\ \A j \in 1..Len(e) : /\ IsDigits(P[j]) /\ int_of(P[j]) = e[j].position
                                        /\ Q[j] = str_float(e[j].psi)
                /\ (rec = T1 /\ df = SubSeq(ObsU, 1, 3) /\ pc = "done") =>
                      /\ out[9] = <<"1", "5", "0", ",", "4", "8", "0", ",">>
                      /\ out[10] = <<"0", ".", "2", ",", "0", ".", "6", ",">>

\* C3 witness: the scenario of the example has been run and emitted.
C3_Witness ==
    /\ pc = "done"
    /\ df = SubSeq(ObsU, 1, 3)
    /\ \E k \in 1..Len(output_file) :
          /\ output_file[k][1] = "T1"
          /\ output_file[k][9] = <<"1", "5", "0", ",", "4", "8", "0", ",">>
          /\ output_file[k][10] = <<"0", ".", "2", ",", "0", ".", "6", ",">>

\* C8: a second run of an assembler on the same splice table and the same
\* observation list leaves the same output file as the first, whatever the
\* thread counts of the two runs.
C8_Idempotent ==
    (pc = "done" /\ rerun /\ df = first_df) => output_file = first_output

\* C8 witness: a threaded assembler has finished both runs on identical inputs
\* with different thread counts and a non-empty output.
C8_Witness ==
    /\ pc = "done" /\ rerun /\ df = first_df
    /\ assembler = "leafcutter"
    /\ n_threads # first_n_threads
    /\ Len(output_file) >= 1

\* C9: a second run on a permutation of the observation list lists, for every
\* transcript, the same set of (position, psi) pairs, and keeps the same set of
\* transcripts.
C9_PermutationInsensitive ==
    (pc = "done" /\ rerun) =>
        /\ MatchedSet(output_file) = MatchedSet(first_output)
        /\ Survivors(output_file) = Survivors(first_output)

\* C9 witness: both runs have finished, the second on a reordered list, and the
\* two output files differ as text.
C9_Witness ==
    /\ pc = "done" /\ rerun
    /\ df # first_df
    /\ output_file # first_output

\* a splice table with a row whose tx_start or tx_end is not an integer
HasBadRow(file) == \E i \in 1..Len(file) : ~HasIntCoords(file[i])

\* what the output must list when the rows with unparseable coordinates are
\* skipped: every other row of the table with at least one match, in table order
ExpectedEmitted(table, obs) ==
    LET good == SelectSeq(table, LAMBDA r : HasIntCoords(r.rec) /\ MatchIdx(obs, r.rec) # {})
    IN  [k \in 1..Len(good) |->
            <<good[k].rec[1], serialize_positions(Expected(obs, good[k].rec)),
              serialize_psi(Expected(obs, good[k].rec))>>]

\* C10: when the splice table holds a row with an unparseable tx_start or
\* tx_end, the run does not crash, and it ends with the output listing exactly
\* the other rows of the table that have a match, each with its join result.
C10_BadRowSkipped ==
    HasBadRow(splice_table_file) =>
        /\ pc # "crashed"
        /\ pc = "done" =>
              [k \in 1..Len(output_file) |->
                  <<output_file[k][1], output_file[k][9], output_file[k][10]>>]
                  = ExpectedEmitted(splice_table, df)

\* the part of C10 that the two assemblers with pd.to_numeric(errors='coerce') meet
C10_CoercingAssemblers == assembler # "spliser" => C10_BadRowSkipped

\* C16: every line an assembler writes has ten fields: the eight fields of
\* one line of the input splice table, in the input's order and with the
\* input's text (also when another line of the table has unparseable
\* coordinates), then positions and psi_values; so no line is a header.
C16_RowFieldsUnchanged ==
    pc = "done" =>
        \A k \in 1..Len(output_file) :
            /\ Len(output_file[k]) = 10
            /\ \E i \in 1..Len(splice_table_file) :
                  \A c \in 1..8 : output_file[k][c] = splice_table_file[i][c]

\* the part of C16 that holds: tables whose coordinates are all integers
C16_IntegerTables == ~HasBadRow(splice_table_file) => C16_RowFieldsUnchanged

\* C26: the splice-efficiency assembler keeps every matched transcript: every
\* record of the input splice table (written without a header line) that has
\* at least one site on its chromosome within [tx_start, tx_end] appears in
\* the output, the first record of the table included.
C26_SpliserKeepsMatched ==
    (assembler = "spliser" /\ pc = "done") =>
        \A i \in 1..Len(splice_table_file) :
            (HasIntCoords(splice_table_file[i]) /\ MatchIdx(df, splice_table_file[i]) # {})
                => \E k \in 1..Len(output_file) :
                       \A c \in 1..4 : output_file[k][c] = splice_table_file[i][c]

\* the table after a loop that joins the rows one after the other, in table order
SequentialTable ==
    LET t == read_splice_table(assembler, splice_table_file)
    IN  [k \in 1..Len(t) |->
            [t[k] EXCEPT !.positions = joined(df, t[k]).positions,
                         !.PSI = joined(df, t[k]).psi_values]]

-----------------------------------------------------------------------------
(* process_leafcutter_psi.py: the LeafCutter PSI normalizer *)

fadd(a, b) == IF a.nan \/ b.nan THEN NaN ELSE Float(a.h + b.h)

RECURSIVE SumH(_)
SumH(xs) == IF xs = <<>> THEN 0 ELSE Head(xs).h + SumH(Tail(xs))

\* df[sample_columns].mean(axis=1, skipna=True): the mean of the values that
\* are not missing, NaN when all are (the inputs keep the quotient exact)
mean_skipna(xs) ==
    LET v == SelectSeq(xs, LAMBDA x : ~x.nan)
    IN  IF v = <<>> THEN NaN ELSE Float(SumH(v) \div Len(v))

\* str.rstrip(c)
RECURSIVE rstrip(_, _)
rstrip(s, c) ==
    IF s # <<>> /\ s[Len(s)] = c THEN rstrip(SubSeq(s, 1, Len(s) - 1), c) ELSE s

\* a key of four fields with integer start and end
well_formed(intron_info) ==
    LET f == split(intron_info, ":")
    IN  Len(f) = 4 /\ IsDigits(f[2]) /\ IsDigits(f[3]) /\ f[4] # <<>>

\* a cell the split or a string accessor leaves missing
Missing == <<"NaN">>

\* line 13: str.split(':', expand=True) makes as many columns as the longest
\* key has fields, rows with fewer fields padded with missing cells; the
\* assignment to four columns raises ValueError unless there are four.
\* lines 19-20: astype(int) raises on a missing or non-integer start or end
read_raises(file) ==
    \/ \E i \in 1..Len(file) : Len(split(file[i].intron_info, ":")) > 4
    \/ \A i \in 1..Len(file) : Len(split(file[i].intron_info, ":")) < 4
    \/ \E i \in 1..Len(file) :
          LET f == split(file[i].intron_info, ":")
          IN  Len(f) < 3 \/ ~IsDigits(f[2]) \/ ~IsDigits(f[3])

\* the decoded columns of one row, with its average_psi
decode(row) ==
    LET f == split(row.intron_info, ":")
        intron_start == int_of(f[2])
        intron_end == int_of(f[3])
    IN  [intron_info |-> row.intron_info,
         chromosome |-> f[1],
         intron_start |-> intron_start,
         intron_end |-> intron_end,
         strand |-> IF Len(f) < 4 \/ f[4] = <<>> THEN Missing ELSE <<f[4][Len(f[4])]>>,
         cluster_id |-> IF Len(f) < 4 THEN Missing
                        ELSE rstrip(SubSeq(f[4], 1, Len(f[4]) - 1), "_"),
         exon_end |-> intron_start - 1,
         exon_start |-> intron_end + 1,
         average_psi |-> mean_skipna(row.samples)]

\* an accumulation that overwrites instead of adding
accumulate_overwrite(psi, average_psi) == average_psi

\* position_accumulator[key]['psi'] += average_psi
accumulate(psi, average_psi) == fadd(psi, average_psi)

HasKey(acc, key) == \E k \in 1..Len(acc) : acc[k].key = key

\* if key not in position_accumulator: create the entry with psi 0; then add
add_position(acc, key, row) ==
    LET acc1 == IF HasKey(acc, key) THEN acc
                ELSE Append(acc, [key |-> key, psi |-> Float(0), intron_info |-> row.intron_info,
                                  chromosome |-> row.chromosome, strand |-> row.strand])
    IN  [k \in 1..Len(acc1) |->
            IF acc1[k].key = key
            THEN [acc1[k] EXCEPT !.psi = accumulate(acc1[k].psi, row.average_psi)]
            ELSE acc1[k]]

\* a loop body that records the exon_start position only
accumulate_row_start_only(acc, row) ==
    add_position(acc, <<row.cluster_id, row.exon_start, "exon_start">>, row)

\* the body of the loop over df.iterrows()
accumulate_row(acc, row) ==
    add_position(add_position(acc, <<row.cluster_id, row.exon_start, "exon_start">>, row),
                 <<row.cluster_id, row.exon_end, "exon_end">>, row)

\* summed_position_df: one row per dict entry, in insertion order
summed_position_df(acc) ==
    [k \in 1..Len(acc) |->
        [cluster_id |-> acc[k].key[1], position |-> acc[k].key[2], type |-> acc[k].key[3],
         psi |-> acc[k].psi, intron_info |-> acc[k].intron_info,
         chromosome |-> acc[k].chromosome, strand |-> acc[k].strand]]

MaxIntrons == 3

Key(chrom, intron_start, intron_end, cluster_strand) ==
    chrom \o <<":">> \o str_int(intron_start) \o <<":">> \o str_int(intron_end) \o <<":">>
    \o cluster_strand

Chr1 == <<"c", "h", "r", "1">>
Clu1Plus == <<"c", "l", "u", "_", "1", "_", "+">>
Clu2Minus == <<"c", "l", "u", "_", "2", "_", "-">>

Intron(key, samples) == [intron_info |-> key, samples |-> samples]

\* introns of two clusters: shared boundaries within clu_1, the same
\* coordinates in clu_2, missing replicate values, a key with a non-integer
\* start, a key of three fields
IntronU ==
    {Intron(Key(Chr1, 100, 200, Clu1Plus), <<Float(20), Float(40)>>),
     Intron(Key(Chr1, 100, 300, Clu1Plus), <<Float(40), NaN>>),
     Intron(Key(Chr1, 150, 200, Clu1Plus), <<Float(10), Float(10)>>),
     Intron(Key(Chr1, 100, 200, Clu2Minus), <<Float(50), Float(50)>>),
     Intron(Key(Chr1, 100, 400, Clu1Plus), <<NaN, NaN>>),
     Intron(Key(Chr1, 50, 98, Clu1Plus), <<Float(60), Float(60)>>),
     Intron(Chr1 \o <<":", "x", ":", "2", "0", "0", ":">> \o Clu1Plus, <<Float(50), Float(50)>>),
     Intron(Chr1 \o <<":", "1", "0", "0", ":", "2", "0", "0">>, <<Float(50), Float(50)>>)}

LeafFiles == UNION {{f \in [1..n -> IntronU] : Injective(f)} : n \in 1..MaxIntrons}

InitLeaf ==
    /\ lc_file \in LeafFiles
    /\ lc_pc = "idle"
    /\ lc_df = <<>>
    /\ lc_i = 0
    /\ position_accumulator = <<>>
    /\ lc_output = <<>>
    /\ AsmIdle /\ RmatsIdle /\ GtfIdle /\ PipeIdle

\* lines 5-37: read the table, decode the keys, average the replicates
LeafRead ==
    /\ lc_pc = "idle"
    /\ IF read_raises(lc_file)
       THEN lc_df' = <<>> /\ lc_pc' = "crashed"
       ELSE lc_df' = Map(decode, lc_file) /\ lc_pc' = "loop"
    /\ UNCHANGED <<lc_file, lc_i, position_accumulator, lc_output>>
    /\ UNCHANGED not_leaf_vars

\* one iteration of the accumulation loop; after the last row the dict is
\* turned into summed_position_df and saved
LeafIter ==
    /\ lc_pc = "loop"
    /\ lc_i < Len(lc_df)
    /\ LET acc == accumulate_row(position_accumulator, lc_df[lc_i + 1])
       IN  /\ position_accumulator' = acc
           /\ lc_i' = lc_i + 1
           /\ IF lc_i + 1 = Len(lc_df)
              THEN lc_pc' = "done" /\ lc_output' = summed_position_df(acc)
              ELSE UNCHANGED <<lc_pc, lc_output>>
    /\ UNCHANGED <<lc_file, lc_df>>
    /\ UNCHANGED not_leaf_vars

NextLeaf == LeafRead \/ LeafIter

SpecLeaf == InitLeaf /\ [][NextLeaf]_vars

\* the rows of the cluster whose boundary of the key's type is the key's position
Contributors(rows, key) ==
    {i \in 1..Len(rows) :
        /\ rows[i].cluster_id = key[1]
        /\ \/ key[3] = "exon_start" /\ rows[i].exon_start = key[2]
           \/ key[3] = "exon_end" /\ rows[i].exon_end = key[2]}

RECURSIVE SetSumH(_, _)
SetSumH(rows, I) ==
    IF I = {} THEN 0
    ELSE LET i == CHOOSE i \in I : TRUE IN rows[i].average_psi.h + SetSumH(rows, I \ {i})

\* the sum of average_psi over the rows I (NaN as soon as one of them is NaN)
SumAvg(rows, I) ==
    IF \E i \in I : rows[i].average_psi.nan THEN NaN ELSE Float(SetSumH(rows, I))

KeyOf(o) == <<o.cluster_id, o.position, o.type>>

\* C4: the psi of every (cluster_id, position, boundary_type) is the sum of
\* average_psi over the introns of that cluster with that boundary at that
\* position: over the rows read so far during the loop, over all rows in the
\* output, which has one row per key; two introns with 0.3 and 0.4 yield 0.7.
C4_AccumulationIsSum ==
    /\ \A k \in 1..Len(position_accumulator) :
          LET e == position_accumulator[k]
          IN  e.psi = SumAvg(lc_df, Contributors(lc_df, e.key) \cap (1..lc_i))
    /\ lc_pc = "done" =>
          /\ \A k \in 1..Len(lc_output) :
                /\ Contributors(lc_df, KeyOf(lc_output[k])) # {}
                /\ lc_output[k].psi = SumAvg(lc_df, Contributors(lc_df, KeyOf(lc_output[k])))
                /\ \A j \in 1..Len(lc_output) : KeyOf(lc_output[j]) = KeyOf(lc_output[k]) => j = k
          /\ \A i \in 1..Len(lc_df) : \E k \in 1..Len(lc_output) :
                KeyOf(lc_output[k]) = <<lc_df[i].cluster_id, lc_df[i].exon_end, "exon_end">>
          /\ \A i \in 1..Len(lc_df) : \E k \in 1..Len(lc_output) :
                KeyOf(lc_output[k]) = <<lc_df[i].cluster_id, lc_df[i].exon_start, "exon_start">>
          /\ (\E i, j \in 1..Len(lc_df) :
                 /\ i # j /\ Len(lc_df) = 2
                 /\ lc_df[i].average_psi = Float(30) /\ lc_df[j].average_psi = Float(40)
                 /\ lc_df[i].cluster_id = lc_df[j].cluster_id
                 /\ lc_df[i].exon_end = lc_df[j].exon_end)
             => \E k \in 1..Len(lc_output) :
                   lc_output[k].type = "exon_end" /\ lc_output[k].psi = Float(70)

\* C4 witness: the output holds a key that two introns of one cluster share,
\* with averages 0.3 and 0.4, and its psi is 0.7.
C4_Witness ==
    /\ lc_pc = "done"
    /\ \E k \in 1..Len(lc_output) :
          LET I == Contributors(lc_df, KeyOf(lc_output[k]))
          IN  /\ Cardinality(I) = 2
              /\ {lc_df[i].average_psi : i \in I} = {Float(30), Float(40)}
              /\ lc_output[k].psi = Float(70)

\* the contributors of a key whose replicate average is defined
DefinedContributors(rows, key) ==
    {i \in Contributors(rows, key) : ~rows[i].average_psi.nan}

\* C11: an intron whose replicate values are all missing contributes nothing:
\* every row of the normalized output has a defined psi, the sum of
\* average_psi over the contributing introns with a defined average, and a
\* key that only such introns contribute to has no row.
C11_UndefinedExcluded ==
    lc_pc = "done" =>
        \A k \in 1..Len(lc_output) :
            /\ ~lc_output[k].psi.nan
            /\ DefinedContributors(lc_df, KeyOf(lc_output[k])) # {}
            /\ lc_output[k].psi.h = SetSumH(lc_df, DefinedContributors(lc_df, KeyOf(lc_output[k])))

\* the rows of the input whose key is well formed
WellFormedRows(file) == SelectSeq(file, LAMBDA r : well_formed(r.intron_info))

RECURSIVE AccumulateRows(_, _)
AccumulateRows(acc, rows) ==
    IF rows = <<>> THEN acc
    ELSE AccumulateRows(accumulate_row(acc, Head(rows)), Tail(rows))

\* C23: a row whose intron key is malformed (not exactly four colon-separated
\* fields, or a non-numeric intron_start or intron_end) is skipped and the run
\* continues: the run never aborts, and the normalized output is the one the
\* well-formed rows alone accumulate.
C23_MalformedRowSkipped ==
    (\E i \in 1..Len(lc_file) : ~well_formed(lc_file[i].intron_info)) =>
        /\ lc_pc # "crashed"
        /\ lc_pc = "done" =>
              lc_output = summed_position_df(
                              AccumulateRows(<<>>, Map(decode, WellFormedRows(lc_file))))

\* C24: the normalized output is deduplicated by genomic position: each
\* (chromosome, position) appears in at most one of its rows, so the interval
\* join, which lists every row it matches, lists no position twice (stated
\* for inputs whose keys are all well formed).
C24_OneRowPerPosition ==
    (lc_pc = "done" /\ \A i \in 1..Len(lc_file) : well_formed(lc_file[i].intron_info)) =>
        \A j, k \in 1..Len(lc_output) :
            (/\ lc_output[j].chromosome = lc_output[k].chromosome
             /\ lc_output[j].position = lc_output[k].position) => j = k

\* s without its trailing underscores
WithoutTrailingUnderscores(s) ==
    SubSeq(s, 1, CHOOSE m \in 0..Len(s) :
                     /\ m = 0 \/ s[m] # "_"
                     /\ \A j \in (m + 1)..Len(s) : s[j] = "_")

\* what the key "chrom:intron_start:intron_end:cluster_strand" stands for
KeyFields(intron_info) ==
    LET f == split(intron_info, ":")
    IN  [strand |-> <<f[4][Len(f[4])]>>,
         cluster_id |-> WithoutTrailingUnderscores(SubSeq(f[4], 1, Len(f[4]) - 1)),
         exon_end |-> int_of(f[2]) - 1,
         exon_start |-> int_of(f[3]) + 1]

\* the two accumulator keys of an intron
KeysOfIntron(intron_info) ==
    LET d == KeyFields(intron_info)
    IN  {<<d.cluster_id, d.exon_start, "exon_start">>, <<d.cluster_id, d.exon_end, "exon_end">>}

\* C25: for every row key "chrom:intron_start:intron_end:cluster_strand",
\* strand is the last character of the fourth field, cluster_id is the fourth
\* field without that character and without trailing underscores, exon_end =
\* intron_start - 1 and exon_start = intron_end + 1; every intron contributes
\* to exactly two accumulator keys, (cluster_id, exon_start, exon_start) and
\* (cluster_id, exon_end, exon_end): the keys of the accumulator are those of
\* the introns read so far, and the output has one row for each.
C25_KeyDecoding ==
    (\A i \in 1..Len(lc_file) : well_formed(lc_file[i].intron_info)) =>
        /\ \A i \in 1..Len(lc_df) :
              LET d == KeyFields(lc_df[i].intron_info)
              IN  /\ lc_df[i].strand = d.strand
                  /\ lc_df[i].cluster_id = d.cluster_id
                  /\ lc_df[i].exon_end = d.exon_end
                  /\ lc_df[i].exon_start = d.exon_start
        /\ {position_accumulator[k].key : k \in 1..Len(position_accumulator)}
              = UNION {KeysOfIntron(lc_df[i].intron_info) : i \in 1..lc_i}
        /\ lc_pc = "done" =>
              {KeyOf(lc_output[k]) : k \in 1..Len(lc_output)}
                  = UNION {KeysOfIntron(lc_file[i].intron_info) : i \in 1..Len(lc_file)}

\* C25 witness: the intron chr1:100:200:clu_1_+ has been decoded to cluster
\* clu_1 on strand +, and the output has its rows (clu_1, 201, exon_start) and
\* (clu_1, 99, exon_end).
C25_Witness ==
    /\ lc_pc = "done"
    /\ \A i \in 1..Len(lc_file) : well_formed(lc_file[i].intron_info)
    /\ \E i \in 1..Len(lc_df) :
          /\ lc_df[i].intron_info = Key(Chr1, 100, 200, Clu1Plus)
          /\ lc_df[i].cluster_id = <<"c", "l", "u", "_", "1">>
          /\ lc_df[i].strand = <<"+">>
    /\ \E j, k \in 1..Len(lc_output) :
          /\ KeyOf(lc_output[j]) = <<<<"c", "l", "u", "_", "1">>, 201, "exon_start">>
          /\ KeyOf(lc_output[k]) = <<<<"c", "l", "u", "_", "1">>, 99, "exon_end">>

-----------------------------------------------------------------------------
(* process_rmats_psi.py: extraction of the splice sites of one directory *)

\* float(v) of a token such as "0.25", "0.6" or "1"
float_of(v) ==
    LET f == split(v, ".")
    IN  IF Len(f) = 1 THEN Float(100 * int_of(f[1]))
        ELSE IF Len(f[2]) = 1 THEN Float(100 * int_of(f[1]) + 10 * int_of(f[2]))
        ELSE Float(100 * int_of(f[1]) + int_of(f[2]))

NA == <<"N", "A">>

\* safe_psi_calculation.calculate: the mean of the tokens that are not 'NA',
\* None when every token is (the inputs keep the quotient exact)
calculate(psi) ==
    LET values == split(psi, ",")
        valid_values == Map(float_of, SelectSeq(values, LAMBDA v : v # NA))
    IN  IF valid_values = <<>> THEN NaN ELSE Float(SumH(valid_values) \div Len(valid_values))

IsNumber(v) ==
    LET f == split(v, ".")
    IN  Len(f) \in {1, 2} /\ \A k \in 1..Len(f) : IsDigits(f[k])

\* line 61, pd.read_csv: a cell of IncLevel1 is parsed to a float when it is the
\* missing marker NA, or when every cell of the column is one number or NA;
\* a cell holding a comma list keeps the column, and its other cells, text
reads_as_float(rows, i) ==
    \/ rows[i].IncLevel1 = NA
    \/ \A j \in 1..Len(rows) : IsNumber(rows[j].IncLevel1) \/ rows[j].IncLevel1 = NA

\* line 65, psi.split(','): a float has no split
raises_AttributeError(rows) == \E i \in 1..Len(rows) : reads_as_float(rows, i)

\* a skip value that repeats the inclusion value
skip_psi_same(x) == x

\* lambda x: 1 - x if x is not None else None
skip_psi(x) == IF x.nan THEN NaN ELSE Float(100 - x.h)

One == Float(100)

site_row(ev, event_type, splice_site, site_type, form_type, psi) ==
    [ID |-> ev.ID, geneSymbol |-> ev.geneSymbol, chr |-> ev.chr, strand |-> ev.strand,
     splice_site |-> splice_site, site_type |-> site_type, event_type |-> event_type,
     form_type |-> form_type, psi_1 |-> psi]

\* an A5SS donor row that keeps the computed value on both strands
a5ss_donor_psi_unforced(strand, psi_1) == psi_1

\* line 181: 1 if x['strand'] == '+' else x['psi_1']
a5ss_donor_psi(strand, psi_1) == IF strand = "+" THEN One ELSE psi_1

\* line 194: 1 if x['strand'] == '-' else x['psi_1']
a5ss_acceptor_psi(strand, psi_1) == IF strand = "-" THEN One ELSE psi_1

\* line 227: 1 if x['strand'] == '-' else x['psi_1']
a3ss_donor_psi(strand, psi_1) == IF strand = "-" THEN One ELSE psi_1

\* line 240: 1 if x['strand'] == '+' else x['psi_1']
a3ss_acceptor_psi(strand, psi_1) == IF strand = "+" THEN One ELSE psi_1

extract_SE(rows) ==
    [i \in 1..Len(rows) |->
        site_row(rows[i], "SE", rows[i].cols.exonStart_0base, "donor", "inclusion",
                 calculate(rows[i].IncLevel1))]
    \o [i \in 1..Len(rows) |->
        site_row(rows[i], "SE", rows[i].cols.exonEnd, "acceptor", "inclusion",
                 calculate(rows[i].IncLevel1))]

\* an MXE extraction that emits the inclusion form only
extract_MXE_inclusion_only(rows) ==
    [i \in 1..Len(rows) |->
        site_row(rows[i], "MXE",
                 IF rows[i].strand = "+" THEN rows[i].cols.firstExonStart_0base
                 ELSE rows[i].cols.secondExonStart_0base,
                 "donor", "inclusion", calculate(rows[i].IncLevel1))]
    \o [i \in 1..Len(rows) |->
        site_row(rows[i], "MXE",
                 IF rows[i].strand = "+" THEN rows[i].cols.firstExonEnd
                 ELSE rows[i].cols.secondExonEnd,
                 "acceptor", "inclusion", calculate(rows[i].IncLevel1))]

extract_MXE(rows) ==
    [i \in 1..Len(rows) |->
        site_row(rows[i], "MXE",
                 IF rows[i].strand = "+" THEN rows[i].cols.firstExonStart_0base
                 ELSE rows[i].cols.secondExonStart_0base,
                 "donor", "inclusion", calculate(rows[i].IncLevel1))]
    \o [i \in 1..Len(rows) |->
        site_row(rows[i], "MXE",
                 IF rows[i].strand = "+" THEN rows[i].cols.firstExonEnd
                 ELSE rows[i].cols.secondExonEnd,
                 "acceptor", "inclusion", calculate(rows[i].IncLevel1))]
    \o [i \in 1..Len(rows) |->
        site_row(rows[i], "MXE",
                 IF rows[i].strand = "+" THEN rows[i].cols.secondExonStart_0base
                 ELSE rows[i].cols.firstExonStart_0base,
                 "donor", "skip", skip_psi(calculate(rows[i].IncLevel1)))]
    \o [i \in 1..Len(rows) |->
        site_row(rows[i], "MXE",
                 IF rows[i].strand = "+" THEN rows[i].cols.secondExonEnd
                 ELSE rows[i].cols.firstExonEnd,
                 "acceptor", "skip", skip_psi(calculate(rows[i].IncLevel1)))]

extract_A5SS(rows) ==
    [i \in 1..Len(rows) |->
        site_row(rows[i], "A5SS", rows[i].cols.longExonStart_0base, "donor", "inclusion",
                 a5ss_donor_psi(rows[i].strand, calculate(rows[i].IncLevel1)))]
    \o [i \in 1..Len(rows) |->
        site_row(rows[i], "A5SS", rows[i].cols.longExonEnd, "acceptor", "inclusion",
                 a5ss_acceptor_psi(rows[i].strand, calculate(rows[i].IncLevel1)))]
    \o [i \in 1..Len(rows) |->
        site_row(rows[i], "A5SS",
                 IF rows[i].strand = "-" THEN rows[i].cols.shortES ELSE rows[i].cols.shortEE,
                 "acceptor", "skip", skip_psi(calculate(rows[i].IncLevel1)))]

extract_A3SS(rows) ==
    [i \in 1..Len(rows) |->
        site_row(rows[i], "A3SS", rows[i].cols.longExonStart_0base, "donor", "inclusion",
                 a3ss_donor_psi(rows[i].strand, calculate(rows[i].IncLevel1)))]
    \o [i \in 1..Len(rows) |->
        site_row(rows[i], "A3SS", rows[i].cols.longExonEnd, "acceptor", "inclusion",
                 a3ss_acceptor_psi(rows[i].strand, calculate(rows[i].IncLevel1)))]
    \o [i \in 1..Len(rows) |->
        site_row(rows[i], "A3SS",
                 IF rows[i].strand = "-" THEN rows[i].cols.shortEE ELSE rows[i].cols.shortES,
                 "acceptor", "skip", skip_psi(calculate(rows[i].IncLevel1)))]

extract_RI(rows) ==
    [i \in 1..Len(rows) |->
        site_row(rows[i], "RI", rows[i].cols.riExonStart_0base, "donor", "inclusion",
                 calculate(rows[i].IncLevel1))]
    \o [i \in 1..Len(rows) |->
        site_row(rows[i], "RI", rows[i].cols.riExonEnd, "acceptor", "inclusion",
                 calculate(rows[i].IncLevel1))]
    \o [i \in 1..Len(rows) |->
        site_row(rows[i], "RI", rows[i].cols.upstreamEE, "donor", "skip",
                 skip_psi(calculate(rows[i].IncLevel1)))]
    \o [i \in 1..Len(rows) |->
        site_row(rows[i], "RI", rows[i].cols.downstreamES, "acceptor", "skip",
                 skip_psi(calculate(rows[i].IncLevel1)))]

\* extract_splice_sites(event_type, file_path): the rows of the file's events
extract_splice_sites(event_type, rows) ==
    IF event_type = "SE" THEN extract_SE(rows)
    ELSE IF event_type = "MXE" THEN extract_MXE(rows)
    ELSE IF event_type = "A5SS" THEN extract_A5SS(rows)
    ELSE IF event_type = "A3SS" THEN extract_A3SS(rows)
    ELSE IF event_type = "RI" THEN extract_RI(rows)
    ELSE <<>>

\* Averages are exact fractions num/den in lowest terms, or undefined.
RECURSIVE GCD(_, _)
GCD(a, b) == IF b = 0 THEN a ELSE GCD(b, a % b)

QNaN == [nan |-> TRUE, num |-> 0, den |-> 1]

Q(num, den) ==
    LET g == GCD(num, den) IN [nan |-> FALSE, num |-> num \div g, den |-> den \div g]

\* the fraction of a PSI value
QOf(x) == IF x.nan THEN QNaN ELSE Q(x.h, 100)

RECURSIVE QSum(_)
QSum(qs) ==
    IF qs = <<>> THEN Q(0, 1)
    ELSE LET t == QSum(Tail(qs))
         IN  Q(Head(qs).num * t.den + t.num * Head(qs).den, Head(qs).den * t.den)

\* a mean that is undefined as soon as one value is
mean_no_skipna(qs) ==
    IF qs = <<>> \/ \E k \in 1..Len(qs) : qs[k].nan THEN QNaN
    ELSE Q(QSum(qs).num, QSum(qs).den * Len(qs))

\* mean with skipna: the mean of the defined values, undefined when there is none
mean(qs) ==
    LET v == SelectSeq(qs, LAMBDA q : ~q.nan)
    IN  IF v = <<>> THEN QNaN ELSE Q(QSum(v).num, QSum(v).den * Len(v))

site_key(r) == <<r.splice_site, r.chr, r.geneSymbol>>

\* lines 346-358: groupby(['splice_site', 'chr', 'geneSymbol']) with the mean
\* of psi_1; one entry per site, indexed by the site
groupby_mean(rows) ==
    {[site |-> k,
      average_psi |-> mean(Map(LAMBDA r : QOf(r.psi_1),
                               SelectSeq(rows, LAMBDA r : site_key(r) = k)))] :
        k \in {site_key(rows[i]) : i \in 1..Len(rows)}}

RECURSIVE extract_all(_, _)
\* lines 337-343: the rows of the files of the directory that exist, in the
\* order of event_files
extract_all(files, types) ==
    IF types = <<>> THEN <<>>
    ELSE (IF files[Head(types)].exists
          THEN extract_splice_sites(Head(types), files[Head(types)].rows)
          ELSE <<>>) \o extract_all(files, Tail(types))

\* the keys of event_files, in the order of the dict
event_types == <<"SE", "MXE", "A3SS", "A5SS", "RI">>

MaxEvents == 2

Event(id, strand, inc, cols) ==
    [ID |-> id, geneSymbol |-> "G1", chr |-> "chr1", strand |-> strand, IncLevel1 |-> inc,
     cols |-> cols]

Inc_02_04 == <<"0", ".", "2", ",", "0", ".", "4">>
Inc_NA_NA == <<"N", "A", ",", "N", "A">>
Inc_NA_06 == <<"N", "A", ",", "0", ".", "6">>
Inc_1 == <<"1", ".", "0">>

SECols == [exonStart_0base |-> 100, exonEnd |-> 200]
MXECols ==
    [firstExonStart_0base |-> 100, firstExonEnd |-> 200,
     secondExonStart_0base |-> 300, secondExonEnd |-> 400]
AltCols == [longExonStart_0base |-> 100, longExonEnd |-> 200, shortES |-> 100, shortEE |-> 150]
RICols == [riExonStart_0base |-> 100, riExonEnd |-> 400, upstreamEE |-> 200, downstreamES |-> 300]

\* the events a file of each type may hold (the columns 1stExon.. and 2ndExon..
\* of the MXE table are spelled firstExon.. and secondExon..)
EventU ==
    [SE |-> <<Event(0, "+", Inc_02_04, SECols), Event(1, "-", Inc_NA_NA, SECols)>>,
     MXE |-> <<Event(0, "+", Inc_NA_06, MXECols), Event(1, "-", Inc_02_04, MXECols)>>,
     A3SS |-> <<Event(0, "+", Inc_02_04, AltCols), Event(1, "-", Inc_02_04, AltCols),
                Event(2, "+", Inc_NA_NA, AltCols), Event(3, "-", Inc_NA_NA, AltCols)>>,
     A5SS |-> <<Event(0, "+", Inc_02_04, AltCols), Event(1, "-", Inc_02_04, AltCols),
                Event(2, "+", Inc_NA_NA, AltCols), Event(3, "-", Inc_NA_NA, AltCols)>>,
     RI |-> <<Event(0, "+", Inc_1, RICols), Event(1, "-", Inc_NA_06, RICols)>>]

\* a file is absent, or holds 1..MaxEvents of its type's events in their order
FilesOf(u) ==
    {[exists |-> FALSE, rows |-> <<>>]} \cup
    {[exists |-> TRUE, rows |-> [k \in 1..Cardinality(S) |-> u[Nth(S, k)]]] :
        S \in {S \in SUBSET (1..Len(u)) : Cardinality(S) >= 1 /\ Cardinality(S) <= MaxEvents}}

InitRmats ==
    /\ rm_files \in [SE : FilesOf(EventU.SE), MXE : FilesOf(EventU.MXE),
                     A3SS : FilesOf(EventU.A3SS), A5SS : FilesOf(EventU.A5SS),
                     RI : FilesOf(EventU.RI)]
    /\ rm_pc = "idle"
    /\ rm_k = 0
    /\ all_splice_sites = <<>>
    /\ average_psi_df = {}
    /\ AsmIdle /\ LeafIdle /\ GtfIdle /\ RmainIdle /\ PipeIdle

\* lines 330-334: a directory with none of the event files is skipped
RmatsCheckDir ==
    /\ rm_pc = "idle"
    /\ rm_pc' = IF \E k \in 1..Len(event_types) : rm_files[event_types[k]].exists
                THEN "loop" ELSE "skipped"
    /\ UNCHANGED <<rm_files, rm_k, all_splice_sites, average_psi_df>>
    /\ UNCHANGED not_rmats_vars

\* lines 337-343: the next event type; its file, when there, is extracted
RmatsExtract ==
    /\ rm_pc = "loop"
    /\ rm_k < Len(event_types)
    /\ LET event_type == event_types[rm_k + 1]
           file == rm_files[event_type]
       IN  IF file.exists /\ raises_AttributeError(file.rows)
           THEN /\ rm_pc' = "crashed"
                /\ UNCHANGED <<rm_k, all_splice_sites>>
           ELSE /\ all_splice_sites' =
                      IF file.exists
                      THEN all_splice_sites \o extract_splice_sites(event_type, file.rows)
                      ELSE all_splice_sites
                /\ rm_k' = rm_k + 1
                /\ rm_pc' = IF rm_k + 1 = Len(event_types) THEN "extracted" ELSE "loop"
    /\ UNCHANGED <<rm_files, average_psi_df>>
    /\ UNCHANGED not_rmats_vars

\* lines 345-360: the rows of all files are grouped by site and averaged
RmatsGroup ==
    /\ rm_pc = "extracted"
    /\ average_psi_df' = groupby_mean(all_splice_sites)
    /\ rm_pc' = "averaged"
    /\ UNCHANGED <<rm_files, rm_k, all_splice_sites>>
    /\ UNCHANGED not_rmats_vars

NextRmats == RmatsCheckDir \/ RmatsExtract \/ RmatsGroup

SpecRmats == InitRmats /\ [][NextRmats]_vars

-----------------------------------------------------------------------------
(* process_rmats_psi.py: main, one pooled task per results directory *)

\* a directory is processed only when all of its event files exist
process_directory_complete_only(files) ==
    IF \E k \in 1..Len(event_types) : ~files[event_types[k]].exists
    THEN [kind |-> "None", frame |-> {}]
    ELSE IF \E k \in 1..Len(event_types) : raises_AttributeError(files[event_types[k]].rows)
    THEN [kind |-> "exception", frame |-> {}]
    ELSE [kind |-> "frame", frame |-> groupby_mean(extract_all(files, event_types))]

\* process_directory(rmats_dir, event_files): None for a directory with none
\* of the files, the exception of a file that cannot be extracted, else the
\* frame of per-site averages
process_directory(files) ==
    IF ~\E k \in 1..Len(event_types) : files[event_types[k]].exists
    THEN [kind |-> "None", frame |-> {}]
    ELSE IF \E k \in 1..Len(event_types) :
               files[event_types[k]].exists /\ raises_AttributeError(files[event_types[k]].rows)
    THEN [kind |-> "exception", frame |-> {}]
    ELSE [kind |-> "frame", frame |-> groupby_mean(extract_all(files, event_types))]

\* the cell of a site in the column of one directory; missing when the
\* directory has no row for the site
column_value(frame, site) ==
    IF \E e \in frame : e.site = site
    THEN (CHOOSE e \in frame : e.site = site).average_psi
    ELSE QNaN

\* an aggregation that reads the first collected column only
average_first_column(entries) ==
    {[splice_site |-> e.site[1], chr |-> e.site[2], geneSymbol |-> e.site[3],
      average_psi_across_samples |-> e.average_psi] :
        e \in {x \in entries[1].frame : ~x.average_psi.nan}}

\* lines 407-416: the columns side by side on the union of the sites, the
\* mean of each row over the columns, rows with an undefined mean dropped
average_across_samples_df(entries) ==
    LET sites == UNION {{e.site : e \in entries[k].frame} : k \in 1..Len(entries)}
        across(site) == mean([k \in 1..Len(entries) |-> column_value(entries[k].frame, site)])
    IN  {[splice_site |-> site[1], chr |-> site[2], geneSymbol |-> site[3],
          average_psi_across_samples |-> across(site)] :
            site \in {x \in sites : ~across(x).nan}}

MaxDirs == 2

Absent == [exists |-> FALSE, rows |-> <<>>]

File(rows) == [exists |-> TRUE, rows |-> rows]

NoFiles == [SE |-> Absent, MXE |-> Absent, A3SS |-> Absent, A5SS |-> Absent, RI |-> Absent]

Dir(name, files) == [name |-> name, files |-> files]

\* the result directories a parent directory may hold: some of the files, a
\* different number of rows on a shared site, none of the files, a file
\* whose extraction raises, only undefined values
DirU ==
    {Dir("s1", [NoFiles EXCEPT !.SE = File(<<EventU.SE[1]>>), !.A5SS = File(<<EventU.A5SS[1]>>)]),
     Dir("s2", [NoFiles EXCEPT !.RI = File(<<EventU.RI[2]>>)]),
     Dir("s3", NoFiles),
     Dir("s4", [NoFiles EXCEPT !.SE = File(<<EventU.SE[1]>>), !.RI = File(<<EventU.RI[1]>>)]),
     Dir("s5", [NoFiles EXCEPT !.SE = File(<<EventU.SE[2]>>)])}

\* os.listdir: up to MaxDirs directories, in any order
DirLists == UNION {{f \in [1..n -> DirU] : Injective(f)} : n \in 0..MaxDirs}

InitRmain ==
    /\ rmats_dirs \in DirLists
    /\ rm_n_threads = 0
    /\ rm_main_pc = "idle"
    /\ rm_futures = <<>>
    /\ rm_results = <<>>
    /\ all_average_psi = <<>>
    /\ rm_outfile = [written |-> FALSE, rows |-> {}]
    /\ AsmIdle /\ LeafIdle /\ GtfIdle /\ RmatsDirIdle /\ PipeIdle

\* lines 392-394: one task per directory is submitted; with no directory the
\* loop has nothing to collect and no file is written
RmainSubmit ==
    /\ rm_main_pc = "idle"
    /\ rm_n_threads' \in 1..MaxThreads
    /\ rm_futures' = [i \in 1..Len(rmats_dirs) |-> "queued"]
    /\ rm_results' = [i \in 1..Len(rmats_dirs) |-> [kind |-> "None", frame |-> {}]]
    /\ rm_main_pc' = IF rmats_dirs = <<>> THEN "done" ELSE "pool"
    /\ UNCHANGED <<rmats_dirs, all_average_psi, rm_outfile>>
    /\ UNCHANGED not_rmain_vars

\* a free worker takes the oldest queued task
RmainTaskStart(i) ==
    /\ rm_main_pc = "pool"
    /\ rm_futures[i] = "queued"
    /\ \A j \in 1..(i - 1) : rm_futures[j] # "queued"
    /\ Cardinality({j \in DOMAIN rm_futures : rm_futures[j] = "running"}) < rm_n_threads
    /\ rm_futures' = [rm_futures EXCEPT ![i] = "running"]
    /\ UNCHANGED <<rmats_dirs, rm_n_threads, rm_main_pc, rm_results, all_average_psi, rm_outfile>>
    /\ UNCHANGED not_rmain_vars

\* the task returns or raises; the future keeps the outcome
RmainTaskFinish(i) ==
    /\ rm_main_pc = "pool"
    /\ rm_futures[i] = "running"
    /\ rm_futures' = [rm_futures EXCEPT ![i] = "finished"]
    /\ rm_results' = [rm_results EXCEPT ![i] = process_directory(rmats_dirs[i].files)]
    /\ UNCHANGED <<rmats_dirs, rm_n_threads, rm_main_pc, all_average_psi, rm_outfile>>
    /\ UNCHANGED not_rmain_vars

\* lines 396-418: as_completed hands over a finished future; a frame is kept
\* under the directory's name, None and an exception are not; after the last
\* future the kept frames, if any, are combined and written
RmainCollect(i) ==
    /\ rm_main_pc = "pool"
    /\ rm_futures[i] = "finished"
    /\ LET kept == IF rm_results[i].kind = "frame"
                   THEN Append(all_average_psi,
                               [dir_name |-> rmats_dirs[i].name, frame |-> rm_results[i].frame])
                   ELSE all_average_psi
           last == \A j \in DOMAIN rm_futures : j # i => rm_futures[j] = "collected"
       IN  /\ all_average_psi' = kept
           /\ rm_main_pc' = IF last THEN "done" ELSE "pool"
           /\ rm_outfile' = IF last /\ kept # <<>>
                            THEN [written |-> TRUE, rows |-> average_across_samples_df(kept)]
                            ELSE rm_outfile
    /\ rm_futures' = [rm_futures EXCEPT ![i] = "collected"]
    /\ UNCHANGED <<rmats_dirs, rm_n_threads, rm_results>>
    /\ UNCHANGED not_rmain_vars

NextRmain ==
    \/ RmainSubmit
    \/ \E i \in DOMAIN rm_futures : RmainTaskStart(i)
    \/ \E i \in DOMAIN rm_futures : RmainTaskFinish(i)
    \/ \E i \in DOMAIN rm_futures : RmainCollect(i)

SpecRmain == InitRmain /\ [][NextRmain]_vars

\* the directories whose task returned a frame
KeptDirs == {i \in 1..Len(rmats_dirs) : process_directory(rmats_dirs[i].files).kind = "frame"}

\* the extracted rows of directory i with a defined PSI on a site
DefinedRows(i, site) ==
    LET rows == extract_all(rmats_dirs[i].files, event_types)
    IN  {k \in 1..Len(rows) : site_key(rows[k]) = site /\ ~rows[k].psi_1.nan}

RECURSIVE SumPsiH(_, _)
SumPsiH(rows, K) ==
    IF K = {} THEN 0
    ELSE LET k == CHOOSE k \in K : TRUE IN rows[k].psi_1.h + SumPsiH(rows, K \ {k})

\* the mean of the defined PSI values of directory i on a site, as a fraction
DirMean(i, site) ==
    [num |-> SumPsiH(extract_all(rmats_dirs[i].files, event_types), DefinedRows(i, site)),
     den |-> 100 * Cardinality(DefinedRows(i, site))]

\* the sum of DirMean over the directories I, as a fraction
RECURSIVE SumDirMeans(_, _)
SumDirMeans(I, site) ==
    IF I = {} THEN [num |-> 0, den |-> 1]
    ELSE LET i == CHOOSE i \in I : TRUE
             t == SumDirMeans(I \ {i}, site)
             m == DirMean(i, site)
         IN  [num |-> m.num * t.den + t.num * m.den, den |-> m.den * t.den]

AllSites ==
    UNION {{site_key(extract_all(rmats_dirs[i].files, event_types)[k]) :
               k \in 1..Len(extract_all(rmats_dirs[i].files, event_types))} : i \in KeptDirs}

\* C12: the output has exactly one row per site that is defined in at least
\* one directory; the per-directory value of a site is the mean of the defined
\* PSI values of all extracted rows on it, and the row's value is the mean of
\* the per-directory values over the directories where the site is defined.
C12_TwoStageAverage ==
    rm_main_pc = "done" =>
        LET Where(site) == {i \in KeptDirs : DefinedRows(i, site) # {}}
            RowSite(r) == <<r.splice_site, r.chr, r.geneSymbol>>
        IN  /\ {RowSite(r) : r \in rm_outfile.rows} = {x \in AllSites : Where(x) # {}}
            /\ \A r, q \in rm_outfile.rows : RowSite(r) = RowSite(q) => r = q
            /\ \A r \in rm_outfile.rows :
                  LET t == SumDirMeans(Where(RowSite(r)), RowSite(r))
                      a == r.average_psi_across_samples
                  IN  /\ ~a.nan
                      /\ a.num * t.den * Cardinality(Where(RowSite(r))) = t.num * a.den

\* C12 witness: site 100 has two rows in one directory (0.3 and 1, mean 0.65)
\* and one row in another (0.6); the output gives 0.625, the mean of the two
\* means, where the pooled mean of the three rows would be 19/30.
C12_Witness ==
    /\ rm_main_pc = "done"
    /\ \E i, j \in KeptDirs :
          /\ Cardinality(DefinedRows(i, <<100, "chr1", "G1">>)) = 2
          /\ Cardinality(DefinedRows(j, <<100, "chr1", "G1">>)) = 1
    /\ \E r \in rm_outfile.rows :
          /\ r.splice_site = 100
          /\ r.average_psi_across_samples = [nan |-> FALSE, num |-> 5, den |-> 8]

\* the event types whose file the loop has passed
Handled == {event_types[k] : k \in 1..rm_k}

\* the frames of the directories that return one, in the order of the listing
ListingOrderEntries ==
    LET F == [i \in 1..Len(rmats_dirs) |->
                 [dir_name |-> rmats_dirs[i].name,
                  frame |-> process_directory(rmats_dirs[i].files).frame]]
    IN  [k \in 1..Cardinality(KeptDirs) |-> F[Nth(KeptDirs, k)]]

HasSomeFile(i) == \E k \in 1..Len(event_types) : rmats_dirs[i].files[event_types[k]].exists

\* the extraction of one of the files of directory i raises
Raises(i) ==
    \E k \in 1..Len(event_types) :
        /\ rmats_dirs[i].files[event_types[k]].exists
        /\ raises_AttributeError(rmats_dirs[i].files[event_types[k]].rows)

\* the sites of the rows of the event files that directory i has
SitesOfFiles(i) ==
    UNION {{site_key(r) : r \in {extract_splice_sites(event_types[k],
                                     rmats_dirs[i].files[event_types[k]].rows)[j] :
                                 j \in 1..Len(extract_splice_sites(event_types[k],
                                     rmats_dirs[i].files[event_types[k]].rows))}} :
           k \in {k \in 1..Len(event_types) : rmats_dirs[i].files[event_types[k]].exists}}

\* C22: when the loop over the futures has ended, the kept frames are those
\* of the directories that have some event file and raise no error, each made
\* from the files the directory has (all five or fewer); a directory with no
\* event file or with an error has no frame; and the output is written from
\* the kept directories, with a row for every site one of them defines.
C22_FailureIsolation ==
    /\ (rm_main_pc # "idle" /\ \A j \in DOMAIN rm_futures : rm_futures[j] = "collected")
          => rm_main_pc = "done"
    /\ rm_main_pc = "done" =>
          /\ {all_average_psi[k].dir_name : k \in 1..Len(all_average_psi)}
                = {rmats_dirs[i].name : i \in {i \in 1..Len(rmats_dirs) :
                                                  HasSomeFile(i) /\ ~Raises(i)}}
          /\ \A k \in 1..Len(all_average_psi) : \A i \in 1..Len(rmats_dirs) :
                rmats_dirs[i].name = all_average_psi[k].dir_name =>
                    {e.site : e \in all_average_psi[k].frame} = SitesOfFiles(i)
          /\ \A i \in 1..Len(rmats_dirs) :
                (HasSomeFile(i) /\ ~Raises(i)) =>
                    /\ rm_outfile.written
                    /\ \A site \in SitesOfFiles(i) :
                          DefinedRows(i, site) # {} =>
                              \E r \in rm_outfile.rows :
                                  <<r.splice_site, r.chr, r.geneSymbol>> = site

\* C22 witness: of two directories one raises during extraction and the other
\* lacks some of the five files; the output is written with the sites of the
\* second.
C22_Witness ==
    /\ rm_main_pc = "done"
    /\ \E i, j \in 1..Len(rmats_dirs) :
          /\ Raises(i)
          /\ HasSomeFile(j) /\ ~Raises(j)
          /\ \E k \in 1..Len(event_types) : ~rmats_dirs[j].files[event_types[k]].exists
    /\ Len(all_average_psi) = 1
    /\ rm_outfile.written /\ rm_outfile.rows # {}

\* the extracted rows of event ev of the given type
EventRows(event_type, ev) ==
    {k \in 1..Len(all_splice_sites) :
        all_splice_sites[k].event_type = event_type /\ all_splice_sites[k].ID = ev.ID}

\* event ev of the given type has a row with these columns
HasRow(event_type, ev, site, site_type, form_type, psi) ==
    \E k \in EventRows(event_type, ev) :
        /\ all_splice_sites[k].splice_site = site
        /\ all_splice_sites[k].site_type = site_type
        /\ all_splice_sites[k].form_type = form_type
        /\ all_splice_sites[k].psi_1 = psi
        /\ all_splice_sites[k].geneSymbol = ev.geneSymbol
        /\ all_splice_sites[k].chr = ev.chr
        /\ all_splice_sites[k].strand = ev.strand

PsiSkip(psi_inclusion) == IF psi_inclusion.nan THEN NaN ELSE Float(100 - psi_inclusion.h)

\* C17: every MXE event yields exactly four rows: the inclusion donor and
\* acceptor at the start and end of the first exon on strand '+' and of the
\* second exon otherwise, with psi_inclusion, and the skip donor and acceptor
\* at the start and end of the other exon, with psi_skip.
C17_MxeFourRows ==
    "MXE" \in Handled =>
        \A i \in 1..Len(rm_files["MXE"].rows) :
            LET ev == rm_files["MXE"].rows[i]
                psi_inclusion == calculate(ev.IncLevel1)
                plus == ev.strand = "+"
                incl_start == IF plus THEN ev.cols.firstExonStart_0base
                              ELSE ev.cols.secondExonStart_0base
                incl_end == IF plus THEN ev.cols.firstExonEnd ELSE ev.cols.secondExonEnd
                skip_start == IF plus THEN ev.cols.secondExonStart_0base
                              ELSE ev.cols.firstExonStart_0base
                skip_end == IF plus THEN ev.cols.secondExonEnd ELSE ev.cols.firstExonEnd
            IN  /\ Cardinality(EventRows("MXE", ev)) = 4
                /\ HasRow("MXE", ev, incl_start, "donor", "inclusion", psi_inclusion)
                /\ HasRow("MXE", ev, incl_end, "acceptor", "inclusion", psi_inclusion)
                /\ HasRow("MXE", ev, skip_start, "donor", "skip", PsiSkip(psi_inclusion))
                /\ HasRow("MXE", ev, skip_end, "acceptor", "skip", PsiSkip(psi_inclusion))

\* C17 witness: a '-'-strand MXE event with inclusion level 0.3 has its
\* inclusion donor at the start of the second exon and its skip donor, with
\* 0.7, at the start of the first.
C17_Witness ==
    /\ rm_pc = "extracted"
    /\ \E i \in 1..Len(rm_files["MXE"].rows) :
          LET ev == rm_files["MXE"].rows[i]
          IN  /\ ev.strand = "-"
              /\ HasRow("MXE", ev, ev.cols.secondExonStart_0base, "donor", "inclusion", Float(30))
              /\ HasRow("MXE", ev, ev.cols.firstExonStart_0base, "donor", "skip", Float(70))

\* the skip-form rows of event ev of the given type
SkipRows(event_type, ev) ==
    {k \in EventRows(event_type, ev) : all_splice_sites[k].form_type = "skip"}

\* C18: every A5SS event yields exactly one skip row, an acceptor at shortES
\* on strand '-' and at shortEE otherwise; every A3SS event exactly one, an
\* acceptor at shortEE on strand '-' and at shortES otherwise; the row carries
\* psi_skip; an SE event yields no skip row.
C18_SkipRows ==
    /\ \A et \in {"A5SS", "A3SS"} :
          et \in Handled =>
              \A i \in 1..Len(rm_files[et].rows) :
                  LET ev == rm_files[et].rows[i]
                      minus == ev.strand = "-"
                      site == IF et = "A5SS"
                              THEN (IF minus THEN ev.cols.shortES ELSE ev.cols.shortEE)
                              ELSE (IF minus THEN ev.cols.shortEE ELSE ev.cols.shortES)
                  IN  /\ Cardinality(SkipRows(et, ev)) = 1
                      /\ HasRow(et, ev, site, "acceptor", "skip",
                                PsiSkip(calculate(ev.IncLevel1)))
    /\ \A k \in 1..Len(all_splice_sites) :
          all_splice_sites[k].event_type = "SE" => all_splice_sites[k].form_type # "skip"

\* C18 witness: a '-'-strand A5SS event and a '-'-strand A3SS event, both with
\* inclusion level 0.3, have their skip acceptor with 0.7 at shortES and at
\* shortEE, next to the rows of an SE event.
C18_Witness ==
    /\ rm_pc = "extracted"
    /\ \E k \in 1..Len(all_splice_sites) : all_splice_sites[k].event_type = "SE"
    /\ \E i \in 1..Len(rm_files["A5SS"].rows) :
          LET ev == rm_files["A5SS"].rows[i]
          IN  ev.strand = "-" /\ HasRow("A5SS", ev, ev.cols.shortES, "acceptor", "skip", Float(70))
    /\ \E i \in 1..Len(rm_files["A3SS"].rows) :
          LET ev == rm_files["A3SS"].rows[i]
          IN  ev.strand = "-" /\ HasRow("A3SS", ev, ev.cols.shortEE, "acceptor", "skip", Float(70))

\* the replicate tokens of an event that are not NA
ValidTokens(ev) == SelectSeq(split(ev.IncLevel1, ","), LAMBDA v : v # NA)

\* x is the mean of the valid tokens of ev, undefined when there is none
IsPsiInclusion(x, ev) ==
    IF ValidTokens(ev) = <<>> THEN x.nan
    ELSE ~x.nan /\ x.h * Len(ValidTokens(ev)) = SumH(Map(float_of, ValidTokens(ev)))

\* x is 1 minus the mean of the valid tokens of ev, undefined when there is none
IsPsiSkip(x, ev) ==
    IF ValidTokens(ev) = <<>> THEN x.nan
    ELSE ~x.nan /\ (100 - x.h) * Len(ValidTokens(ev)) = SumH(Map(float_of, ValidTokens(ev)))

\* C19: the extraction computes, for every event of every event file, a
\* psi_inclusion that is the mean of the IncLevel1 tokens other than NA,
\* undefined when all are NA, and a psi_skip that is 1 - psi_inclusion,
\* undefined with it: the inclusion rows of the event carry psi_inclusion
\* (or the forced 1 of A5SS and A3SS) and its skip rows psi_skip.
C19_PsiCommonStep ==
    /\ rm_pc # "crashed"
    /\ \A et \in Handled : \A i \in 1..Len(rm_files[et].rows) :
          LET ev == rm_files[et].rows[i]
          IN  /\ \E k \in EventRows(et, ev) :
                    /\ all_splice_sites[k].form_type = "inclusion"
                    /\ IsPsiInclusion(all_splice_sites[k].psi_1, ev)
              /\ \A k \in EventRows(et, ev) :
                    IF all_splice_sites[k].form_type = "skip"
                    THEN IsPsiSkip(all_splice_sites[k].psi_1, ev)
                    ELSE \/ IsPsiInclusion(all_splice_sites[k].psi_1, ev)
                         \/ et \in {"A5SS", "A3SS"} /\ all_splice_sites[k].psi_1 = Float(100)

\* the part of C19 that holds: directories in which every IncLevel1 column
\* is read as text (a comma list in some row, no cell that is NA alone)
C19_TextColumns ==
    (\A k \in 1..Len(event_types) :
        rm_files[event_types[k]].exists => ~raises_AttributeError(rm_files[event_types[k]].rows))
    => C19_PsiCommonStep

\* the extracted inclusion rows of event ev of the given type at a splice site
InclusionRows(event_type, ev, site) ==
    {k \in 1..Len(all_splice_sites) :
        /\ all_splice_sites[k].event_type = event_type
        /\ all_splice_sites[k].ID = ev.ID
        /\ all_splice_sites[k].form_type = "inclusion"
        /\ all_splice_sites[k].splice_site = site}

\* C5: for every A5SS event the inclusion row at longExonStart has PSI 1 on
\* strand '+' and the one at longExonEnd has PSI 1 on strand '-'; for every
\* A3SS event longExonEnd has PSI 1 on '+' and longExonStart has PSI 1 on '-';
\* this holds whatever psi_inclusion is (undefined included), and the other
\* long-exon boundary of the event carries psi_inclusion.
C5_StrandForcedPsi ==
    \A et \in {"A5SS", "A3SS"} : \A i \in 1..Len(rm_files[et].rows) :
        LET ev == rm_files[et].rows[i]
            psi_inclusion == calculate(ev.IncLevel1)
            forced_start == (et = "A5SS" /\ ev.strand = "+") \/ (et = "A3SS" /\ ev.strand = "-")
            forced_end == (et = "A5SS" /\ ev.strand = "-") \/ (et = "A3SS" /\ ev.strand = "+")
            at_start == InclusionRows(et, ev, ev.cols.longExonStart_0base)
            at_end == InclusionRows(et, ev, ev.cols.longExonEnd)
        IN  et \in Handled =>
               /\ Cardinality(at_start) = 1 /\ Cardinality(at_end) = 1
               /\ \A k \in at_start :
                     all_splice_sites[k].psi_1 = IF forced_start THEN Float(100) ELSE psi_inclusion
               /\ \A k \in at_end :
                     all_splice_sites[k].psi_1 = IF forced_end THEN Float(100) ELSE psi_inclusion

\* C5 witness: a '+'-strand A5SS event with no defined replicate value has
\* been extracted: PSI 1 at longExonStart, undefined at longExonEnd.
C5_Witness ==
    /\ rm_pc = "extracted"
    /\ \E i \in 1..Len(rm_files["A5SS"].rows) :
          LET ev == rm_files["A5SS"].rows[i]
          IN  /\ ev.strand = "+" /\ calculate(ev.IncLevel1).nan
              /\ \E k \in InclusionRows("A5SS", ev, ev.cols.longExonStart_0base) :
                    all_splice_sites[k].psi_1 = Float(100)
              /\ \E k \in InclusionRows("A5SS", ev, ev.cols.longExonEnd) :
                    all_splice_sites[k].psi_1.nan

-----------------------------------------------------------------------------
(* make_splice_table.py: the annotation model builder *)

\* an attribute the blob does not carry; str(None) is 'None'
None == "None"

\* re.search(f'{attr_name} "([^"]+)"', attr_string): the value of the first
\* entry of the blob with that name
extract_attribute(attr_string, attr_name) ==
    LET hits == SelectSeq(attr_string, LAMBDA e : e[1] = attr_name)
    IN  IF hits = <<>> THEN None ELSE hits[1][2]

\* lines 30-33: the columns of a line, one per extracted attribute
parse_line(line) ==
    [seqname |-> line.seqname, feature |-> line.feature, start |-> line.start,
     end |-> line.end, strand |-> line.strand,
     gene_id |-> extract_attribute(line.attributes, "gene_id"),
     transcript_id |-> extract_attribute(line.attributes, "transcript_id"),
     gene_name |-> extract_attribute(line.attributes, "gene_name"),
     gene_type |-> extract_attribute(line.attributes, "gene_type"),
     tag |-> extract_attribute(line.attributes, "tag")]

\* lines 40-45 (no tag value of the annotation contains another one, so the
\* substring test is an equality)
appris_priority(x) ==
    IF x = "appris_principal_1" THEN 1
    ELSE IF x = "appris_principal_2" THEN 2
    ELSE IF x = "appris_principal_3" THEN 3
    ELSE IF x = "appris_principal_4" THEN 4
    ELSE IF x = "appris_principal_5" THEN 5
    ELSE 6

\* lines 47-48: the order of sort_values within one gene_id
sorts_before(a, b) ==
    \/ appris_priority(a.tag) < appris_priority(b.tag)
    \/ appris_priority(a.tag) = appris_priority(b.tag) /\ a.end > b.end
    \/ appris_priority(a.tag) = appris_priority(b.tag) /\ a.end = b.end /\ a.start < b.start

\* lines 36-50: per gene_id the first transcript row of the (stable) sort
select_primary(parsed) ==
    LET T == {i \in 1..Len(parsed) :
                 /\ parsed[i].gene_type = "protein_coding"
                 /\ parsed[i].feature = "transcript"
                 /\ parsed[i].gene_id # None}
        first(g) ==
            CHOOSE i \in T :
                /\ parsed[i].gene_id = g
                /\ \A j \in T \ {i} :
                      parsed[j].gene_id = g =>
                          \/ sorts_before(parsed[i], parsed[j])
                          \/ ~sorts_before(parsed[j], parsed[i]) /\ i < j
    IN  {[gene_id |-> g, primary_transcript_id |-> parsed[first(g)].transcript_id] :
            g \in {parsed[i].gene_id : i \in T}}

\* lines 56-60: the exon rows of a transcript
exons_of(parsed, transcript_id) ==
    SelectSeq(parsed, LAMBDA r : r.feature = "exon" /\ r.transcript_id = transcript_id)

\* the exon starts joined in the order of the file
exon_start_sites_file_order(parsed, transcript_id) ==
    join(<<",">>, Map(str_int, Map(LAMBDA r : r.start, exons_of(parsed, transcript_id))))

\* line 57: ','.join(map(str, sorted(x))) over the exon starts
exon_start_sites(parsed, transcript_id) ==
    join(<<",">>, Map(str_int, SortSeq(Map(LAMBDA r : r.start, exons_of(parsed, transcript_id)),
                                       LAMBDA a, b : a < b)))

\* line 58: ','.join(map(str, sorted(x))) over the exon ends
exon_end_sites(parsed, transcript_id) ==
    join(<<",">>, Map(str_int, SortSeq(Map(LAMBDA r : r.end, exons_of(parsed, transcript_id)),
                                       LAMBDA a, b : a < b)))

\* x.count(',')
count(x, c) == Cardinality({i \in 1..Len(x) : x[i] = c})

\* a filter that keeps every transcript with exon records
has_junction_any(sites) == count(sites, ",") >= 0

\* line 66: .str.count(',') >= 1
has_junction(sites) == count(sites, ",") >= 1

\* line 70: ','.join(x.split(',')[1:]) + ','
trim_first(x) == LET t == split(x, ",") IN join(<<",">>, SubSeq(t, 2, Len(t))) \o <<",">>

\* line 71: ','.join(x.split(',')[:-1]) + ','
trim_last(x) == LET t == split(x, ",") IN join(<<",">>, SubSeq(t, 1, Len(t) - 1)) \o <<",">>

\* lines 52-71: the transcript rows of the primary transcripts of protein-coding
\* genes that have exon records and at least one junction, exon lists trimmed
filter_and_trim(parsed, primary) ==
    LET kept == SelectSeq(parsed, LAMBDA r :
                    /\ r.gene_type = "protein_coding"
                    /\ \E p \in primary : p.primary_transcript_id = r.transcript_id
                    /\ exons_of(parsed, r.transcript_id) # <<>>
                    /\ r.feature = "transcript"
                    /\ has_junction(exon_start_sites(parsed, r.transcript_id)))
    IN  [i \in 1..Len(kept) |->
            [seqname |-> kept[i].seqname, start |-> kept[i].start, end |-> kept[i].end,
             strand |-> kept[i].strand, transcript_id |-> kept[i].transcript_id,
             gene_name |-> kept[i].gene_name, gene_id_x |-> kept[i].gene_id,
             exon_start_sites |-> trim_first(exon_start_sites(parsed, kept[i].transcript_id)),
             exon_end_sites |-> trim_last(exon_end_sites(parsed, kept[i].transcript_id))]]

\* a status that counts every row of the reference, with or without paralogue
paralog_status_any_row(gene_id_x, paralogs) ==
    IF \E k \in 1..Len(paralogs) : paralogs[k].Gene_stable_ID_version = gene_id_x
    THEN 1 ELSE 0

\* lines 80-84: gene_id_x is among the gene ids of the rows with a paralogue
paralog_status(gene_id_x, paralogs) ==
    IF \E k \in 1..Len(paralogs) :
          /\ ~paralogs[k].Human_paralogue_gene_stable_ID.nan
          /\ paralogs[k].Gene_stable_ID_version = gene_id_x
    THEN 1 ELSE 0

\* lines 87, 93: the output columns, in their order
final_row(r, paralogs) ==
    <<r.transcript_id, paralog_status(r.gene_id_x, paralogs), r.seqname, r.strand,
      r.start, r.end, r.exon_end_sites, r.exon_start_sites>>

MaxTranscripts == 3

Transcript(gene_id, gene_type, transcript_id, seqname, strand, start, end, tags, exons) ==
    [gene_id |-> gene_id, gene_type |-> gene_type, transcript_id |-> transcript_id,
     seqname |-> seqname, strand |-> strand, start |-> start, end |-> end, tags |-> tags,
     exons |-> exons]

\* the transcripts an annotation file may list
TranscriptU ==
    <<Transcript("G1", "protein_coding", "TA", "chr1", "+", 100, 900,
                 <<"basic", "appris_principal_1">>, <<<<100, 200>>, <<300, 400>>, <<800, 900>>>>),
      Transcript("G1", "protein_coding", "TB", "chr1", "+", 100, 900,
                 <<"appris_principal_2", "basic">>, <<<<100, 200>>, <<800, 900>>>>),
      Transcript("G1", "protein_coding", "TC", "chr1", "+", 50, 900,
                 <<"basic">>, <<<<50, 900>>>>),
      Transcript("G1", "protein_coding", "TD", "chr1", "+", 100, 950,
                 <<>>, <<<<900, 950>>, <<100, 200>>>>),
      Transcript("G2", "protein_coding", "TE", "chr2", "-", 10, 90,
                 <<"appris_principal_1">>, <<<<70, 90>>, <<30, 40>>, <<10, 20>>>>),
      Transcript("G2", "protein_coding", "TF", "chr2", "-", 10, 95,
                 <<"appris_principal_1">>, <<<<10, 95>>>>),
      Transcript("G3", "lncRNA", "TG", "chr2", "+", 10, 90,
                 <<"appris_principal_1">>, <<<<10, 20>>, <<30, 90>>>>)>>

\* the attribute blob of the transcript and exon lines of a transcript
Attributes(t) ==
    <<<<"gene_id", t.gene_id>>, <<"transcript_id", t.transcript_id>>,
      <<"gene_type", t.gene_type>>, <<"gene_name", t.gene_id>>>>
    \o [k \in 1..Len(t.tags) |-> <<"tag", t.tags[k]>>]

Line(t, feature, start, end, attributes) ==
    [seqname |-> t.seqname, feature |-> feature, start |-> start, end |-> end,
     strand |-> t.strand, attributes |-> attributes]

\* the gene line, the transcript line and the exon lines of a transcript
Bundle(t) ==
    <<Line(t, "gene", t.start, t.end,
           <<<<"gene_id", t.gene_id>>, <<"gene_type", t.gene_type>>, <<"gene_name", t.gene_id>>>>),
      Line(t, "transcript", t.start, t.end, Attributes(t))>>
    \o [k \in 1..Len(t.exons) |-> Line(t, "exon", t.exons[k][1], t.exons[k][2], Attributes(t))]

RECURSIVE Flatten(_)
Flatten(xss) == IF xss = <<>> THEN <<>> ELSE xss[1] \o Flatten(Tail(xss))

\* annotation files: 1..MaxTranscripts transcripts of the universe, in its order
GtfFiles ==
    {Flatten([k \in 1..Cardinality(S) |-> Bundle(TranscriptU[Nth(S, k)])]) :
        S \in {S \in SUBSET (1..Len(TranscriptU)) :
                  Cardinality(S) >= 1 /\ Cardinality(S) <= MaxTranscripts}}

Paralog(gene, nan) ==
    [Gene_stable_ID_version |-> gene, Human_paralogue_gene_stable_ID |-> [nan |-> nan, s |-> "P"]]

ParalogTables ==
    {<<>>, <<Paralog("G1", FALSE), Paralog("G2", TRUE)>>,
     <<Paralog("G1", TRUE), Paralog("G2", FALSE), Paralog("G1", TRUE)>>}

InitGtf ==
    /\ gtf_data \in GtfFiles
    /\ paralog_data \in ParalogTables
    /\ gtf_pc = "idle"
    /\ gtf_data_parsed = <<>>
    /\ primary_transcripts = {}
    /\ principal_transcripts_with_exons_filtered = <<>>
    /\ final_df_ordered = <<>>
    /\ AsmIdle /\ LeafIdle /\ RmatsIdle /\ PipeIdle

\* lines 26-33
GtfParse ==
    /\ gtf_pc = "idle"
    /\ gtf_data_parsed' = Map(parse_line, gtf_data)
    /\ gtf_pc' = "parsed"
    /\ UNCHANGED <<gtf_data, paralog_data, primary_transcripts,
                   principal_transcripts_with_exons_filtered, final_df_ordered>>
    /\ UNCHANGED not_gtf_vars

\* lines 36-50
GtfSelectPrimary ==
    /\ gtf_pc = "parsed"
    /\ primary_transcripts' = select_primary(gtf_data_parsed)
    /\ gtf_pc' = "selected"
    /\ UNCHANGED <<gtf_data, paralog_data, gtf_data_parsed,
                   principal_transcripts_with_exons_filtered, final_df_ordered>>
    /\ UNCHANGED not_gtf_vars

\* lines 52-74
GtfExonSites ==
    /\ gtf_pc = "selected"
    /\ principal_transcripts_with_exons_filtered' =
          filter_and_trim(gtf_data_parsed, primary_transcripts)
    /\ gtf_pc' = "filtered"
    /\ UNCHANGED <<gtf_data, paralog_data, gtf_data_parsed, primary_transcripts,
                   final_df_ordered>>
    /\ UNCHANGED not_gtf_vars

\* lines 76-93
GtfEmit ==
    /\ gtf_pc = "filtered"
    /\ final_df_ordered' =
          [i \in 1..Len(principal_transcripts_with_exons_filtered) |->
              final_row(principal_transcripts_with_exons_filtered[i], paralog_data)]
    /\ gtf_pc' = "done"
    /\ UNCHANGED <<gtf_data, paralog_data, gtf_data_parsed, primary_transcripts,
                   principal_transcripts_with_exons_filtered>>
    /\ UNCHANGED not_gtf_vars

NextGtf == GtfParse \/ GtfSelectPrimary \/ GtfExonSites \/ GtfEmit

SpecGtf == InitGtf /\ [][NextGtf]_vars

\* the priority of the APPRIS tag of a blob, wherever it stands among the tags
BlobPriority(attributes) ==
    LET P == {appris_priority(attributes[k][2]) :
                 k \in {k \in 1..Len(attributes) : attributes[k][1] = "tag"}} \cup {6}
    IN  CHOOSE p \in P : \A q \in P : p <= q

\* the transcript lines of a protein-coding gene
TranscriptLines(g) ==
    {k \in 1..Len(gtf_data) :
        /\ gtf_data[k].feature = "transcript"
        /\ extract_attribute(gtf_data[k].attributes, "gene_id") = g
        /\ extract_attribute(gtf_data[k].attributes, "gene_type") = "protein_coding"}

ProteinCodingGenes ==
    {extract_attribute(gtf_data[k].attributes, "gene_id") :
        k \in {k \in 1..Len(gtf_data) :
                  /\ gtf_data[k].feature = "transcript"
                  /\ extract_attribute(gtf_data[k].attributes, "gene_type") = "protein_coding"}}

Selected(g) == {p \in primary_transcripts : p.gene_id = g}

\* C6: once the primary transcripts are selected, every protein-coding gene
\* with a transcript record has exactly one primary transcript; its APPRIS
\* priority is the minimum among the gene's transcripts, among those of
\* minimum priority it has the largest end, and among those the smallest start.
C6_PrimarySelection ==
    gtf_pc \in {"selected", "filtered", "done"} =>
        \A g \in ProteinCodingGenes :
            /\ Cardinality(Selected(g)) = 1
            /\ \A p \in Selected(g) : \E k \in TranscriptLines(g) :
                  /\ extract_attribute(gtf_data[k].attributes, "transcript_id")
                        = p.primary_transcript_id
                  /\ \A j \in TranscriptLines(g) :
                        LET pk == BlobPriority(gtf_data[k].attributes)
                            pj == BlobPriority(gtf_data[j].attributes)
                        IN  /\ pk <= pj
                            /\ pk = pj => gtf_data[k].end >= gtf_data[j].end
                            /\ (pk = pj /\ gtf_data[k].end = gtf_data[j].end) =>
                                  gtf_data[k].start <= gtf_data[j].start

\* The same selection rule, read with the priority of the first tag of each
\* blob (the value the tag column holds).
C6_SelectionByFirstTag ==
    gtf_pc \in {"selected", "filtered", "done"} =>
        \A g \in ProteinCodingGenes :
            /\ Cardinality(Selected(g)) = 1
            /\ \A p \in Selected(g) : \E k \in TranscriptLines(g) :
                  /\ extract_attribute(gtf_data[k].attributes, "transcript_id")
                        = p.primary_transcript_id
                  /\ \A j \in TranscriptLines(g) :
                        LET pk == appris_priority(extract_attribute(gtf_data[k].attributes, "tag"))
                            pj == appris_priority(extract_attribute(gtf_data[j].attributes, "tag"))
                        IN  /\ pk <= pj
                            /\ pk = pj => gtf_data[k].end >= gtf_data[j].end
                            /\ (pk = pj /\ gtf_data[k].end = gtf_data[j].end) =>
                                  gtf_data[k].start <= gtf_data[j].start

\* C13: the priority a transcript is ranked with is k when its blob carries
\* the tag appris_principal_k, wherever the tag stands among the blob's tag
\* entries, and 6 when the blob carries no such tag.
C13_ApprisPriorityAnywhere ==
    gtf_pc # "idle" =>
        \A k \in 1..Len(gtf_data) :
            gtf_data[k].feature = "transcript" =>
                appris_priority(gtf_data_parsed[k].tag) = BlobPriority(gtf_data[k].attributes)

\* the exon lines of a transcript in the annotation file
ExonLines(transcript_id) ==
    {k \in 1..Len(gtf_data) :
        /\ gtf_data[k].feature = "exon"
        /\ extract_attribute(gtf_data[k].attributes, "transcript_id") = transcript_id}

Ascending(L) == \A i, j \in 1..Len(L) : i < j => L[i] <= L[j]

\* the values of list L are those of the lines K under f, each as often, but
\* for one occurrence less of the value drop
IsAllBut(L, K, f(_), drop) ==
    \A v \in {f(k) : k \in K} \cup {L[i] : i \in 1..Len(L)} :
        Cardinality({i \in 1..Len(L) : L[i] = v})
            = Cardinality({k \in K : f(k) = v}) - (IF v = drop THEN 1 ELSE 0)

\* C14: for every emitted transcript, exon_start_sites is the ascending list
\* of its exon starts without the smallest and exon_end_sites the ascending
\* list of its exon ends without the largest; a transcript with exactly one
\* exon is not emitted.
C14_ExonBoundaries ==
    /\ \A i \in 1..Len(final_df_ordered) :
          LET K == ExonLines(final_df_ordered[i][1])
              starts == Map(int_of, Items(final_df_ordered[i][8]))
              ends == Map(int_of, Items(final_df_ordered[i][7]))
              first == CHOOSE m \in {gtf_data[k].start : k \in K} :
                           \A k \in K : m <= gtf_data[k].start
              last == CHOOSE m \in {gtf_data[k].end : k \in K} :
                          \A k \in K : m >= gtf_data[k].end
          IN  /\ K # {}
              /\ Ascending(starts) /\ Ascending(ends)
              /\ IsAllBut(starts, K, LAMBDA k : gtf_data[k].start, first)
              /\ IsAllBut(ends, K, LAMBDA k : gtf_data[k].end, last)
    /\ \A i \in 1..Len(final_df_ordered) :
          Cardinality(ExonLines(final_df_ordered[i][1])) # 1

\* C14 witness: transcript TD, whose two exons the file lists from the last
\* to the first, is emitted with the start of the second exon and the end
\* of the first.
C14_Witness ==
    /\ gtf_pc = "done"
    /\ \E i \in 1..Len(final_df_ordered) :
          /\ final_df_ordered[i][1] = "TD"
          /\ final_df_ordered[i][8] = <<"9", "0", "0", ",">>
          /\ final_df_ordered[i][7] = <<"2", "0", "0", ",">>

\* the versioned gene id on the transcript line of a transcript
GeneOf(transcript_id) ==
    LET k == CHOOSE k \in 1..Len(gtf_data) :
                 /\ gtf_data[k].feature = "transcript"
                 /\ extract_attribute(gtf_data[k].attributes, "transcript_id") = transcript_id
    IN  extract_attribute(gtf_data[k].attributes, "gene_id")

\* C15: the paralog_status of an emitted transcript is 1 when its gene id is
\* the 'Gene stable ID version' of a reference row with a non-empty 'Human
\* paralogue gene stable ID', and 0 otherwise.
C15_ParalogStatus ==
    \A i \in 1..Len(final_df_ordered) :
        LET listed == \E k \in 1..Len(paralog_data) :
                          /\ paralog_data[k].Gene_stable_ID_version
                                = GeneOf(final_df_ordered[i][1])
                          /\ ~paralog_data[k].Human_paralogue_gene_stable_ID.nan
        IN  /\ final_df_ordered[i][2] \in {0, 1}
            /\ final_df_ordered[i][2] = 1 <=> listed

\* C15 witness: the output holds a transcript with status 1 and a transcript
\* with status 0 whose gene stands in the reference without a paralogue.
C15_Witness ==
    /\ gtf_pc = "done"
    /\ \E i, j \in 1..Len(final_df_ordered) :
          /\ final_df_ordered[i][2] = 1
          /\ final_df_ordered[j][2] = 0
          /\ \E k \in 1..Len(paralog_data) :
                /\ paralog_data[k].Gene_stable_ID_version = GeneOf(final_df_ordered[j][1])
                /\ paralog_data[k].Human_paralogue_gene_stable_ID.nan

\* C7: every emitted transcript row lists as many internal exon starts as
\* internal exon ends, and at least one of each.
C7_EqualNonEmptyExonLists ==
    \A i \in 1..Len(final_df_ordered) :
        /\ Len(Items(final_df_ordered[i][8])) = Len(Items(final_df_ordered[i][7]))
        /\ Len(Items(final_df_ordered[i][8])) >= 1

\* C7 witness: a row is emitted for a transcript of three exons, with two
\* internal starts and two internal ends.
C7_Witness ==
    /\ gtf_pc = "done"
    /\ \E i \in 1..Len(final_df_ordered) :
          /\ Len(Items(final_df_ordered[i][8])) = 2
          /\ Len(Items(final_df_ordered[i][7])) = 2

-----------------------------------------------------------------------------
(* run_spliser.py: the per-sample phase of the SpliSER pipeline.  A path is  *)
(* the sequence of its name parts; the output directories are left out.      *)

MaxBams == 2

\* the k-th BAM of the list file
Bam(k) == <<"s", Digits[k + 1], ".bam">>

\* the BAM lists: 1..MaxBams distinct BAM files
BamLists == {[k \in 1..n |-> Bam(k)] : n \in 1..MaxBams}

\* os.path.basename(bam_file).replace(".bam", "")
sample_name(bam_file) == SelectSeq(bam_file, LAMBDA t : t # ".bam")

\* create_spliser_junctions: the junction file of a BAM
spliser_junc_file(bam_file) == sample_name(bam_file) \o <<".spliser.junc">>

\* the file the SpliSER process step writes for the prefix given with -o
spliser_tsv(bam_file) == sample_name(bam_file) \o <<".SpliSER.tsv">>

\* what run_spliser_process returns: the path of the existing file when it
\* skips (line 39), the prefix given to the tool when it ran it (line 50)
run_spliser_process(bam_file, disk) ==
    IF spliser_tsv(bam_file) \in disk THEN sample_name(bam_file) \o <<".SpliSER.tsv">>
    ELSE sample_name(bam_file)

\* the line process_bam_file appends: sample_name, output_tsv + ".SpliSER.tsv", bam_file
samples_line(bam_file, output_tsv) ==
    [sample_name |-> sample_name(bam_file),
     path |-> output_tsv \o <<".SpliSER.tsv">>,
     bam_file |-> bam_file]

InitSpliser ==
    /\ bam_files_to_process \in BamLists
    /\ sp_n_threads = 1
    /\ sp_pc = "idle"
    /\ sp_tasks = <<>>
    /\ sp_output_tsv = <<>>
    /\ sp_disk = {}
    /\ samples_file = <<>>
    /\ sp_rerun = FALSE
    /\ AsmIdle /\ LeafIdle /\ RmatsIdle /\ GtfIdle /\ JuncIdle

sp_busy == {j \in DOMAIN sp_tasks : sp_tasks[j] \in {"junctions", "process", "append"}}

\* main, lines 133-145: the samples file is created only if it does not
\* exist, then one task per BAM is submitted; a second run of the pipeline
\* finds the output directory as the first one left it
SpMain ==
    /\ sp_pc = "idle" \/ (sp_pc \in {"finished", "crashed"} /\ ~sp_rerun)
    /\ \E n \in 1..MaxThreads : sp_n_threads' = n
    /\ sp_rerun' = (sp_pc # "idle")
    /\ sp_pc' = "processing"
    /\ sp_tasks' = [i \in 1..Len(bam_files_to_process) |-> "pending"]
    /\ sp_output_tsv' = [i \in 1..Len(bam_files_to_process) |-> <<>>]
    /\ UNCHANGED <<bam_files_to_process, sp_disk, samples_file>>
    /\ UNCHANGED not_spl_vars

\* a free pool thread takes the oldest queued task
SpTaskStart(i) ==
    /\ sp_pc = "processing"
    /\ sp_tasks[i] = "pending"
    /\ \A j \in 1..(i - 1) : sp_tasks[j] # "pending"
    /\ Cardinality(sp_busy) < sp_n_threads
    /\ sp_tasks' = [sp_tasks EXCEPT ![i] = "junctions"]
    /\ UNCHANGED <<bam_files_to_process, sp_n_threads, sp_pc, sp_output_tsv, sp_disk,
                   samples_file, sp_rerun>>
    /\ UNCHANGED not_spl_vars

\* create_spliser_junctions: skip if the junction file exists, else run
\* regtools, which writes it or fails (check=True raises)
SpCreateJunctions(i) ==
    /\ sp_pc = "processing"
    /\ sp_tasks[i] = "junctions"
    /\ LET junc_file == spliser_junc_file(bam_files_to_process[i])
       IN  IF junc_file \in sp_disk
           THEN sp_tasks' = [sp_tasks EXCEPT ![i] = "process"] /\ UNCHANGED sp_disk
           ELSE \/ /\ sp_disk' = sp_disk \cup {junc_file}
                   /\ sp_tasks' = [sp_tasks EXCEPT ![i] = "process"]
                \/ /\ sp_tasks' = [sp_tasks EXCEPT ![i] = "failed"]
                   /\ UNCHANGED sp_disk
    /\ UNCHANGED <<bam_files_to_process, sp_n_threads, sp_pc, sp_output_tsv, samples_file,
                   sp_rerun>>
    /\ UNCHANGED not_spl_vars

\* run_spliser_process: skip if the output exists, else run the tool, which
\* writes it or fails
SpRunProcess(i) ==
    /\ sp_pc = "processing"
    /\ sp_tasks[i] = "process"
    /\ LET bam_file == bam_files_to_process[i]
           returned == run_spliser_process(bam_file, sp_disk)
       IN  IF spliser_tsv(bam_file) \in sp_disk
           THEN /\ sp_output_tsv' = [sp_output_tsv EXCEPT ![i] = returned]
                /\ sp_tasks' = [sp_tasks EXCEPT ![i] = "append"]
                /\ UNCHANGED sp_disk
           ELSE \/ /\ sp_disk' = sp_disk \cup {spliser_tsv(bam_file)}
                   /\ sp_output_tsv' = [sp_output_tsv EXCEPT ![i] = returned]
                   /\ sp_tasks' = [sp_tasks EXCEPT ![i] = "append"]
                \/ /\ sp_tasks' = [sp_tasks EXCEPT ![i] = "failed"]
                   /\ UNCHANGED <<sp_disk, sp_output_tsv>>
    /\ UNCHANGED <<bam_files_to_process, sp_n_threads, sp_pc, samples_file, sp_rerun>>
    /\ UNCHANGED not_spl_vars

\* process_bam_file, lines 58-64: under the lock, append the sample's line
SpAppend(i) ==
    /\ sp_pc = "processing"
    /\ sp_tasks[i] = "append"
    /\ samples_file' = Append(samples_file,
                              samples_line(bam_files_to_process[i], sp_output_tsv[i]))
    /\ sp_tasks' = [sp_tasks EXCEPT ![i] = "done"]
    /\ UNCHANGED <<bam_files_to_process, sp_n_threads, sp_pc, sp_output_tsv, sp_disk, sp_rerun>>
    /\ UNCHANGED not_spl_vars

\* main, lines 146-147 and the end of the with block: every task has ended;
\* future.result() re-raises the exception of a failed one
SpJoin ==
    /\ sp_pc = "processing"
    /\ \A j \in DOMAIN sp_tasks : sp_tasks[j] \in {"done", "failed"}
    /\ sp_pc' = IF \E j \in DOMAIN sp_tasks : sp_tasks[j] = "failed" THEN "crashed"
                ELSE "combine"
    /\ UNCHANGED <<bam_files_to_process, sp_n_threads, sp_tasks, sp_output_tsv, sp_disk,
                   samples_file, sp_rerun>>
    /\ UNCHANGED not_spl_vars

\* main, lines 149-153: the combine and output steps of the tool succeed or fail
SpCombine ==
    /\ sp_pc = "combine"
    /\ \E ok \in BOOLEAN : sp_pc' = IF ok THEN "finished" ELSE "crashed"
    /\ UNCHANGED <<bam_files_to_process, sp_n_threads, sp_tasks, sp_output_tsv, sp_disk,
                   samples_file, sp_rerun>>
    /\ UNCHANGED not_spl_vars

NextSpliser ==
    \/ SpMain
    \/ \E i \in DOMAIN sp_tasks : SpTaskStart(i)
    \/ \E i \in DOMAIN sp_tasks : SpCreateJunctions(i)
    \/ \E i \in DOMAIN sp_tasks : SpRunProcess(i)
    \/ \E i \in DOMAIN sp_tasks : SpAppend(i)
    \/ SpJoin
    \/ SpCombine

SpecSpliser == InitSpliser /\ [][NextSpliser]_vars

\* C27: the path recorded in the samples file is the same whether
\* run_spliser_process ran the tool or skipped it: every line names the
\* existing '<sample>.SpliSER.tsv' file of its sample.
C27_SamplesPath ==
    \A k \in 1..Len(samples_file) :
        /\ samples_file[k].path = samples_file[k].sample_name \o <<".SpliSER.tsv">>
        /\ samples_file[k].path \in sp_disk

\* C28: after any number of runs over the same BAM list, with the samples
\* file kept between runs, each sample name appears in the samples file at
\* most once.
C28_NoDuplicateSamples ==
    \A j, k \in 1..Len(samples_file) :
        samples_file[j].sample_name = samples_file[k].sample_name => j = k

-----------------------------------------------------------------------------
(* run_leafcutter.py: the junction-extraction phase of the LeafCutter pipeline *)

\* os.path.basename(bam_file).replace(".bam", ".junc")
junc_file(bam_file) == [k \in 1..Len(bam_file) |-> IF bam_file[k] = ".bam" THEN ".junc" ELSE bam_file[k]]

InitJunc ==
    /\ bam_files \in BamLists
    /\ lf_n_threads = 1
    /\ lf_pc = "idle"
    /\ lf_tasks = <<>>
    /\ lf_disk = {}
    /\ junction_list_file = <<>>
    /\ lf_rerun = FALSE
    /\ AsmIdle /\ LeafIdle /\ RmatsIdle /\ GtfIdle /\ SpliserIdle

lf_busy == {j \in DOMAIN lf_tasks : lf_tasks[j] \in {"check", "index", "regtools", "append"}}

\* main, lines 110-145: the junction list file is created only if it does not
\* exist, then executor.map submits one task per BAM; a second run of the
\* pipeline finds the output directory as the first one left it
LfMain ==
    /\ lf_pc = "idle" \/ (lf_pc \in {"clustering", "interrupted"} /\ ~lf_rerun)
    /\ \E n \in 1..MaxThreads : lf_n_threads' = n
    /\ lf_rerun' = (lf_pc # "idle")
    /\ lf_pc' = "extracting"
    /\ lf_tasks' = [i \in 1..Len(bam_files) |-> "pending"]
    /\ UNCHANGED <<bam_files, lf_disk, junction_list_file>>
    /\ UNCHANGED not_junc_vars

\* a free pool thread takes the oldest queued task
LfTaskStart(i) ==
    /\ lf_pc = "extracting"
    /\ lf_tasks[i] = "pending"
    /\ \A j \in 1..(i - 1) : lf_tasks[j] # "pending"
    /\ Cardinality(lf_busy) < lf_n_threads
    /\ lf_tasks' = [lf_tasks EXCEPT ![i] = "check"]
    /\ UNCHANGED <<bam_files, lf_n_threads, lf_pc, lf_disk, junction_list_file, lf_rerun>>
    /\ UNCHANGED not_junc_vars

\* extract_junctions, lines 17-22: return at once if the junction file exists
LfCheck(i) ==
    /\ lf_pc = "extracting"
    /\ lf_tasks[i] = "check"
    /\ lf_tasks' = [lf_tasks EXCEPT ![i] =
                       IF junc_file(bam_files[i]) \in lf_disk THEN "returned" ELSE "index"]
    /\ UNCHANGED <<bam_files, lf_n_threads, lf_pc, lf_disk, junction_list_file, lf_rerun>>
    /\ UNCHANGED not_junc_vars

\* lines 24-28: pysam.index succeeds, or fails: the error is logged and the
\* task returns
LfIndex(i) ==
    /\ lf_pc = "extracting"
    /\ lf_tasks[i] = "index"
    /\ \E ok \in BOOLEAN :
          lf_tasks' = [lf_tasks EXCEPT ![i] = IF ok THEN "regtools" ELSE "index_failed"]
    /\ UNCHANGED <<bam_files, lf_n_threads, lf_pc, lf_disk, junction_list_file, lf_rerun>>
    /\ UNCHANGED not_junc_vars

\* lines 31-40: regtools writes the junction file, or fails: check=True raises
\* and the exception stays in the future, which nobody reads
LfRegtools(i) ==
    /\ lf_pc = "extracting"
    /\ lf_tasks[i] = "regtools"
    /\ \/ /\ lf_disk' = lf_disk \cup {junc_file(bam_files[i])}
          /\ lf_tasks' = [lf_tasks EXCEPT ![i] = "append"]
       \/ /\ lf_tasks' = [lf_tasks EXCEPT ![i] = "failed"]
          /\ UNCHANGED lf_disk
    /\ UNCHANGED <<bam_files, lf_n_threads, lf_pc, junction_list_file, lf_rerun>>
    /\ UNCHANGED not_junc_vars

\* lines 43-45: under the lock, append the junction file to the list
LfAppend(i) ==
    /\ lf_pc = "extracting"
    /\ lf_tasks[i] = "append"
    /\ junction_list_file' = Append(junction_list_file, junc_file(bam_files[i]))
    /\ lf_tasks' = [lf_tasks EXCEPT ![i] = "returned"]
    /\ UNCHANGED <<bam_files, lf_n_threads, lf_pc, lf_disk, lf_rerun>>
    /\ UNCHANGED not_junc_vars

\* the end of the with block and line 148: every task has ended, clustering starts
LfCluster ==
    /\ lf_pc = "extracting"
    /\ \A j \in DOMAIN lf_tasks : lf_tasks[j] \in {"returned", "index_failed", "failed"}
    /\ lf_pc' = "clustering"
    /\ UNCHANGED <<bam_files, lf_n_threads, lf_tasks, lf_disk, junction_list_file, lf_rerun>>
    /\ UNCHANGED not_junc_vars

\* the run is killed during the extraction: its threads stop where they are,
\* the files they wrote stay
LfInterrupt ==
    /\ lf_pc = "extracting"
    /\ lf_pc' = "interrupted"
    /\ UNCHANGED <<bam_files, lf_n_threads, lf_tasks, lf_disk, junction_list_file, lf_rerun>>
    /\ UNCHANGED not_junc_vars

NextJunc ==
    \/ LfMain
    \/ \E i \in DOMAIN lf_tasks : LfTaskStart(i)
    \/ \E i \in DOMAIN lf_tasks : LfCheck(i)
    \/ \E i \in DOMAIN lf_tasks : LfIndex(i)
    \/ \E i \in DOMAIN lf_tasks : LfRegtools(i)
    \/ \E i \in DOMAIN lf_tasks : LfAppend(i)
    \/ LfCluster
    \/ LfInterrupt

SpecJunc == InitJunc /\ [][NextJunc]_vars

\* the extraction phase of the current run has finished without error
ExtractionFinishedWithoutError ==
    /\ lf_pc = "clustering"
    /\ \A j \in DOMAIN lf_tasks : lf_tasks[j] = "returned"

\* C29: when the extraction phase has finished without error and clustering
\* starts, the junction list file holds the junction file of every listed BAM
\* exactly once, in every run (also a rerun that finds junction files on disk,
\* as after an interrupted run) and under every interleaving of the workers.
C29_JunctionListComplete ==
    ExtractionFinishedWithoutError =>
        \A i \in 1..Len(bam_files) :
            Cardinality({k \in 1..Len(junction_list_file) :
                            junction_list_file[k] = junc_file(bam_files[i])}) = 1

====
